---- MODULE Spec2Model ----
(***************************************************************************)
(* Page-to-Markdown extension: the conversion core (convertPageToMarkdown) *)
(* in its two builds, the @mozilla/readability build with the regular-     *)
(* expression renderer and the @mizchi/readability build with the library  *)
(* renderer.                                                               *)
(*                                                                         *)
(* Text is a sequence of one-character strings, so that trimming,          *)
(* substring search and the regular-expression substitutions are computed  *)
(* character by character as the JavaScript engine computes them.          *)
(***************************************************************************)
EXTENDS Integers, Sequences, FiniteSets, TLC

VARIABLES
  \* the conversion core
  backend, location, document, pc, path, result, calls,
  \* the content script and the clipboard
  page, env, steps, promise, clipboard, textareas,
  \* the renderer on its own
  fragment, rendered,
  \* the toasts
  toasts, timers, removals, now,
  \* the messages the content script has received
  requests,
  \* the background script and the browser
  tabs, clicks, delivered, console, unhandled

conversion == <<backend, location, document, path, result, calls>>
handling == <<page, env, steps, promise, clipboard, textareas>>
rendering == <<fragment, rendered>>
toasting == <<toasts, timers, removals, now>>

receiving == <<requests>>
background == <<tabs, clicks, delivered, console, unhandled>>
vars == <<conversion, pc, handling, rendering, toasting, receiving, background>>

(***************************************************************************)
(* Text primitives of the JavaScript runtime                               *)
(***************************************************************************)

\* The characters String.prototype.trim removes and \s matches.
WhiteSpace == {" ", "\t", "\n", "\r", "\f"}

\* The characters the pattern "." does not match without the s flag.
LineTerminators == {"\n", "\r"}

\* The least and the greatest element of a non-empty set of numbers
Least(S) == CHOOSE x \in S : \A y \in S : x <= y
Greatest(S) == CHOOSE x \in S : \A y \in S : y <= x

\* String.prototype.trim: the text between its first and its last character
\* that is not white space
Trim(s) ==
  LET inked == {k \in 1..Len(s) : s[k] \notin WhiteSpace}
  IN IF inked = {} THEN <<>> ELSE SubSeq(s, Least(inked), Greatest(inked))

\* String.prototype.indexOf (1-based; 0 when absent)
IndexOf(s, needle) ==
  LET at == {i \in 1..(Len(s) - Len(needle) + 1) :
               SubSeq(s, i, i + Len(needle) - 1) = needle}
  IN IF at = {} THEN 0 ELSE Least(at)

\* String.prototype.includes
Includes(s, needle) == IndexOf(s, needle) # 0

RECURSIVE Concat(_)
Concat(parts) ==
  IF parts = <<>> THEN <<>> ELSE Head(parts) \o Concat(Tail(parts))

\* Array.prototype.join
RECURSIVE Join(_, _)
Join(parts, sep) ==
  IF parts = <<>> THEN <<>>
  ELSE IF Len(parts) = 1 THEN Head(parts)
  ELSE Head(parts) \o sep \o Join(Tail(parts), sep)

Digits == <<"0", "1", "2", "3", "4", "5", "6", "7", "8", "9">>

\* Number to decimal text, as a template literal formats it.
RECURSIVE DecStr(_)
DecStr(n) ==
  IF n < 10 THEN <<Digits[n + 1]>>
  ELSE DecStr(n \div 10) \o <<Digits[(n % 10) + 1]>>

(***************************************************************************)
(* Regular expressions: a backtracking matcher with the priorities of the  *)
(* JavaScript engine (greedy and lazy stars, ordered alternatives,         *)
(* capture groups).  A pattern is a sequence of nodes.                     *)
(***************************************************************************)

LowerLetters ==
  <<"a", "b", "c", "d", "e", "f", "g", "h", "i", "j", "k", "l", "m",
    "n", "o", "p", "q", "r", "s", "t", "u", "v", "w", "x", "y", "z">>

UpperLetters ==
  <<"A", "B", "C", "D", "E", "F", "G", "H", "I", "J", "K", "L", "M",
    "N", "O", "P", "Q", "R", "S", "T", "U", "V", "W", "X", "Y", "Z">>

ToUpper(c) ==
  IF \E k \in 1..26 : LowerLetters[k] = c
  THEN UpperLetters[CHOOSE k \in 1..26 : LowerLetters[k] = c]
  ELSE c

\* a character class
OneOf(cs) == [t |-> "set", neg |-> FALSE, cs |-> cs]
\* a negated character class
NoneOf(cs) == [t |-> "set", neg |-> TRUE, cs |-> cs]
\* . without the s flag, and with it
Dot == NoneOf(LineTerminators)
DotAll == NoneOf({})
\* the greedy and the lazy star of a one-character node x
Star(x) == [t |-> "star", lazy |-> FALSE, of |-> x]
LazyStar(x) == [t |-> "star", lazy |-> TRUE, of |-> x]
\* the parentheses of capture group g
Open(g) == [t |-> "open", g |-> g]
Close(g) == [t |-> "close", g |-> g]
\* the alternatives a and b, tried in this order
Alt(a, b) == [t |-> "alt", a |-> a, b |-> b]

\* literal text, case-sensitive and under the i flag
Lit(str) == <<[t |-> "lit", ci |-> FALSE, str |-> str]>>
LitI(str) == <<[t |-> "lit", ci |-> TRUE, str |-> str]>>

InSet(node, c) == IF node.neg THEN c \notin node.cs ELSE c \in node.cs

\* Whether literal node h matches s at position i
LitAt(h, s, i) ==
  /\ i + Len(h.str) - 1 <= Len(s)
  /\ \A k \in 1..Len(h.str) :
       IF h.ci THEN ToUpper(s[i + k - 1]) = ToUpper(h.str[k])
       ELSE s[i + k - 1] = h.str[k]

\* Where the run of characters of class x that starts at position i ends:
\* the first position from i on that is not in the class
RunEnd(x, s, i) ==
  LET stops == {j \in i..Len(s) : ~InSet(x, s[j])}
  IN IF stops = {} THEN Len(s) + 1 ELSE Least(stops)

\* Capture groups 1..3: no pattern of the renderer has more.
NoCaps == [g \in 1..3 |-> <<0, 0>>]
NoMatch == [ok |-> FALSE, end |-> 0, caps |-> NoCaps]

\* The match of pattern re in s that starts at position i: the first one in
\* the engine's backtracking order.  A greedy star gives back one character
\* at a time, so it ends at the greatest position from which the rest of
\* the pattern matches; a lazy star ends at the least such position.
RECURSIVE Match(_, _, _, _)
Match(re, s, i, caps) ==
  IF re = <<>> THEN [ok |-> TRUE, end |-> i, caps |-> caps]
  ELSE
    LET h == Head(re)
        rest == Tail(re)
    IN CASE h.t = "lit" ->
              IF LitAt(h, s, i) THEN Match(rest, s, i + Len(h.str), caps)
              ELSE NoMatch
         [] h.t = "set" ->
              IF i <= Len(s) /\ InSet(h, s[i])
              THEN Match(rest, s, i + 1, caps)
              ELSE NoMatch
         [] h.t = "star" ->
              LET ends == {j \in i..RunEnd(h.of, s, i) :
                             Match(rest, s, j, caps).ok}
              IN IF ends = {} THEN NoMatch
                 ELSE IF h.lazy THEN Match(rest, s, Least(ends), caps)
                 ELSE Match(rest, s, Greatest(ends), caps)
         [] h.t = "open" ->
              Match(rest, s, i, [caps EXCEPT ![h.g] = <<i, i>>])
         [] h.t = "close" ->
              Match(rest, s, i, [caps EXCEPT ![h.g] = <<caps[h.g][1], i>>])
         [] h.t = "alt" ->
              LET first == Match(h.a \o rest, s, i, caps)
              IN IF first.ok THEN first ELSE Match(h.b \o rest, s, i, caps)

\* The match found at every position of s, as the engine would find it
\* with lastIndex set there
MatchTable(re, s) == [j \in 1..Len(s) |-> Match(re, s, j, NoCaps)]

\* Whether the pattern matches at position j, consuming at least one
\* character (no pattern of the renderer matches the empty text)
MatchesAt(tab, j) == tab[j].ok /\ tab[j].end > j

\* All matches of a pattern with the g flag from position i on, left to
\* right and not overlapping: the leftmost match, then the matches that
\* start where it ends.
RECURSIVE MatchesFrom(_, _)
MatchFrom(tab, starts) ==
  IF starts = {} THEN <<>>
  ELSE <<[from |-> Least(starts), to |-> tab[Least(starts)].end,
          caps |-> tab[Least(starts)].caps]>>
         \o MatchesFrom(tab, tab[Least(starts)].end)
MatchesFrom(tab, i) ==
  MatchFrom(tab, {j \in i..Len(tab) : MatchesAt(tab, j)})

FindAll(re, s) == MatchesFrom(MatchTable(re, s), 1)

\* The text of capture group g of match m
Group(s, m, g) == SubSeq(s, m.caps[g][1], m.caps[g][2] - 1)

\* s with each match ms[k] replaced by reps[k]
RECURSIVE Splice(_, _, _, _, _)
Splice(s, ms, reps, k, i) ==
  IF k > Len(ms) THEN SubSeq(s, i, Len(s))
  ELSE SubSeq(s, i, ms[k].from - 1) \o reps[k]
         \o Splice(s, ms, reps, k + 1, ms[k].to)

\* A replacement string: literal pieces and $g references.
Text(str) == [g |-> 0, lit |-> str]
Ref(g) == [g |-> g, lit |-> <<>>]

Expand(tmpl, s, m) ==
  Concat([k \in 1..Len(tmpl) |->
            IF tmpl[k].g = 0 THEN tmpl[k].lit ELSE Group(s, m, tmpl[k].g)])

\* s with every match of ms replaced by the expansion of the template
Substitute(s, ms, tmpl) ==
  Splice(s, ms, [k \in 1..Len(ms) |-> Expand(tmpl, s, ms[k])], 1, 1)

\* String.prototype.replace(re with the g flag, replacement string)
ReplaceAll(s, re, tmpl) ==
  IF s = <<>> THEN <<>> ELSE Substitute(s, FindAll(re, s), tmpl)

(***************************************************************************)
(* convertHtmlToMarkdown: the ordered substitutions of the regular-        *)
(* expression renderer                                                     *)
(***************************************************************************)

Quote == OneOf({"\"", "'"})
NotQuote == NoneOf({"\"", "'"})
NotGt == NoneOf({">"})

\* the opening tag: "<" name, any characters but ">", then ">"
OpenTag(name) == LitI(<<"<">> \o name) \o <<Star(NotGt)>> \o Lit(<<">">>)
\* the closing tag of name
CloseTag(name) == LitI(<<"<", "/">> \o name \o <<">">>)
\* opening tag, lazily captured content (group 1), closing tag
Paired(name, dot) ==
  OpenTag(name) \o <<Open(1), LazyStar(dot), Close(1)>> \o CloseTag(name)
\* attribute name= with its quoted value captured as group g
Attr(name, g) ==
  LitI(name \o <<"=">>) \o <<Quote, Open(g), Star(NotQuote), Close(g), Quote>>

NL2 == <<"\n", "\n">>

\* The grave accent U+0060, which the module's own syntax cannot quote.
Backtick == "GRAVE"

\* h1..h6 (flags gi): n times "#", a space, $1, two newlines
Heading(s, n) ==
  ReplaceAll(s, Paired(<<"h", Digits[n + 1]>>, Dot),
             <<Text([k \in 1..n |-> "#"] \o <<" ">>), Ref(1), Text(NL2)>>)

\* p (flags gi): $1 and two newlines
Paragraph(s) == ReplaceAll(s, Paired(<<"p">>, Dot), <<Ref(1), Text(NL2)>>)

\* tag a or b opening, content as group 2, tag a or b closing (flags gi):
\* mark $2 mark
Emphasis(s, a, b, mark) ==
  ReplaceAll(s,
    LitI(<<"<">>) \o <<Open(1), Alt(LitI(a), LitI(b)), Close(1), Star(NotGt)>>
      \o Lit(<<">">>) \o <<Open(2), LazyStar(Dot), Close(2)>>
      \o LitI(<<"<", "/">>) \o <<Open(3), Alt(LitI(a), LitI(b)), Close(3)>>
      \o Lit(<<">">>),
    <<Text(mark), Ref(2), Text(mark)>>)

Strong(s) == Emphasis(s, <<"s", "t", "r", "o", "n", "g">>, <<"b">>, <<"*", "*">>)
Em(s) == Emphasis(s, <<"e", "m">>, <<"i">>, <<"*">>)

\* code (flags gi): $1 between backticks
Code(s) ==
  ReplaceAll(s, Paired(<<"c", "o", "d", "e">>, Dot), <<Text(<<Backtick>>), Ref(1), Text(<<Backtick>>)>>)

\* pre (flags gi): a fenced block around $1
Pre(s) ==
  ReplaceAll(s, Paired(<<"p", "r", "e">>, Dot),
             <<Text(<<Backtick, Backtick, Backtick, "\n">>), Ref(1),
               Text(<<"\n", Backtick, Backtick, Backtick, "\n", "\n">>)>>)

\* a with href as group 1 and content as group 2 (flags gi): [$2]($1)
Anchor(s) ==
  ReplaceAll(s,
    LitI(<<"<", "a">>) \o <<Star(NotGt)>> \o Attr(<<"h", "r", "e", "f">>, 1)
      \o <<Star(NotGt)>>
      \o Lit(<<">">>) \o <<Open(2), LazyStar(Dot), Close(2)>>
      \o CloseTag(<<"a">>),
    <<Text(<<"[">>), Ref(2), Text(<<"]", "(">>), Ref(1), Text(<<")">>)>>)

ImgTag == LitI(<<"<", "i", "m", "g">>) \o <<Star(NotGt)>>
ImgTmpl(alt, src) ==
  <<Text(<<"!", "[">>)>> \o alt \o <<Text(<<"]", "(">>)>> \o src
    \o <<Text(<<")">>)>>

\* img with src (group 1) before alt (group 2): ![$2]($1)
ImgSrcAlt(s) ==
  ReplaceAll(s,
    ImgTag \o Attr(<<"s", "r", "c">>, 1) \o <<Star(NotGt)>> \o Attr(<<"a", "l", "t">>, 2)
      \o <<Star(NotGt)>> \o Lit(<<">">>),
    ImgTmpl(<<Ref(2)>>, <<Ref(1)>>))

\* img with alt (group 1) before src (group 2): ![$1]($2)
ImgAltSrc(s) ==
  ReplaceAll(s,
    ImgTag \o Attr(<<"a", "l", "t">>, 1) \o <<Star(NotGt)>> \o Attr(<<"s", "r", "c">>, 2)
      \o <<Star(NotGt)>> \o Lit(<<">">>),
    ImgTmpl(<<Ref(1)>>, <<Ref(2)>>))

\* img with src only (group 1): ![]($1)
ImgSrc(s) ==
  ReplaceAll(s, ImgTag \o Attr(<<"s", "r", "c">>, 1) \o <<Star(NotGt)>> \o Lit(<<">">>),
             ImgTmpl(<<>>, <<Ref(1)>>))

\* li (flags gi)
ListItem == Paired(<<"l", "i">>, Dot)

\* the callback of the unordered list: each li of the content becomes
\* "- $1" and a newline, and a newline is appended
UnorderedItems(content) ==
  ReplaceAll(content, ListItem,
             <<Text(<<"-", " ">>), Ref(1), Text(<<"\n">>)>>) \o <<"\n">>

\* s with each match ms[k] replaced by what the callback returns for its
\* group 1
UnorderedLists(s, ms) ==
  Splice(s, ms, [k \in 1..Len(ms) |-> UnorderedItems(Group(s, ms[k], 1))],
         1, 1)

\* ul (flags gis)
UnorderedList(s) ==
  IF s = <<>> THEN <<>>
  ELSE UnorderedLists(s, FindAll(Paired(<<"u", "l">>, DotAll), s))

\* The inner callback of the ordered list returns counter++, ". $1" and a
\* newline: the value a replacement function returns is inserted as it
\* is, so its $1 stays the two characters "$" and "1".
NumberedItems(content, ms) ==
  Splice(content, ms,
         [k \in 1..Len(ms) |-> DecStr(k) \o <<".", " ", "$", "1", "\n">>],
         1, 1)

\* the callback of the ordered list, which appends a newline
OrderedItems(content) ==
  (IF content = <<>> THEN <<>>
   ELSE NumberedItems(content, FindAll(ListItem, content))) \o <<"\n">>

OrderedLists(s, ms) ==
  Splice(s, ms, [k \in 1..Len(ms) |-> OrderedItems(Group(s, ms[k], 1))],
         1, 1)

\* ol (flags gis) with the counting callback
OrderedList(s) ==
  IF s = <<>> THEN <<>>
  ELSE OrderedLists(s, FindAll(Paired(<<"o", "l">>, DotAll), s))

\* br (flags gi): a newline
LineBreak(s) ==
  ReplaceAll(s, LitI(<<"<", "b", "r">>) \o <<Star(NotGt)>> \o Lit(<<">">>),
             <<Text(<<"\n">>)>>)

\* any remaining tag, "<" then one or more characters but ">" then ">":
\* removed
StripTags(s) ==
  ReplaceAll(s, Lit(<<"<">>) \o <<NotGt, Star(NotGt)>> \o Lit(<<">">>), <<>>)

\* the entities amp, lt, gt, quot and #39, decoded in this order
DecodeEntities(s) ==
  ReplaceAll(
    ReplaceAll(
      ReplaceAll(
        ReplaceAll(
          ReplaceAll(s, Lit(<<"&", "a", "m", "p", ";">>), <<Text(<<"&">>)>>),
          Lit(<<"&", "l", "t", ";">>), <<Text(<<"<">>)>>),
        Lit(<<"&", "g", "t", ";">>), <<Text(<<">">>)>>),
      Lit(<<"&", "q", "u", "o", "t", ";">>), <<Text(<<"\"">>)>>),
    Lit(<<"&", "#", "3", "9", ";">>), <<Text(<<"'">>)>>)

\* a collapse of three adjacent newlines only
CollapseAdjacentNewlines(s) ==
  ReplaceAll(s, Lit(<<"\n", "\n", "\n">>), <<Text(NL2)>>)

\* newline, whitespace, newline, whitespace, newline: two newlines
CollapseBlankLines(s) ==
  ReplaceAll(s,
    Lit(<<"\n">>) \o <<Star(OneOf(WhiteSpace))>> \o Lit(<<"\n">>)
      \o <<Star(OneOf(WhiteSpace))>> \o Lit(<<"\n">>),
    <<Text(NL2)>>)

\* The chain of substitutions in the order of the source, in four parts.
BlockSubstitutions(html) ==
  Paragraph(Heading(Heading(Heading(Heading(Heading(Heading(
    html, 1), 2), 3), 4), 5), 6))

InlineSubstitutions(s) == Anchor(Pre(Code(Em(Strong(s)))))

ImageAndListSubstitutions(s) ==
  OrderedList(UnorderedList(ImgSrc(ImgAltSrc(ImgSrcAlt(s)))))

\* a cleanup that decodes the entities before it removes the tags
CleanupDecodingFirst(s) ==
  CollapseBlankLines(StripTags(DecodeEntities(LineBreak(s))))

Cleanup(s) == CollapseBlankLines(DecodeEntities(StripTags(LineBreak(s))))

\* The whole chain up to, and without, the final .trim()
Substitutions(html) ==
  Cleanup(ImageAndListSubstitutions(InlineSubstitutions(
    BlockSubstitutions(html))))

\* the chain without the final .trim()
ConvertHtmlUntrimmed(html) == Substitutions(html)

\* convertHtmlToMarkdown(html)
ConvertHtmlToMarkdown(html) == Trim(Substitutions(html))

(***************************************************************************)
(* Values of the program                                                   *)
(***************************************************************************)

\* The two builds of functions/readability.ts
Backends == {"mozilla", "mizchi"}

\* The messages: each constant stands for the text the source gives it.
DEFAULT_ERROR_MESSAGE == "DEFAULT_ERROR_MESSAGE"
CONTENT_PROPERTY_ERROR == "CONTENT_PROPERTY_ERROR"
ROOT_PROPERTY_ERROR == "ROOT_PROPERTY_ERROR"
EMPTY_MARKDOWN_ERROR == "EMPTY_MARKDOWN_ERROR"
EXTRACTION_ERROR == "EXTRACTION_ERROR"
CLAUDE_AI_NO_ELEMENTS_ERROR == "CLAUDE_AI_NO_ELEMENTS_ERROR"
CLAUDE_AI_DOMAIN == <<"c", "l", "a", "u", "d", "e", ".", "a", "i">>
SECTION_SEPARATOR == <<"\n", "\n", "-", "-", "-", "\n", "\n">>

\* A thrown value: an Error instance or not, with a message property or not.
Thrown(isError, hasMessage, message) ==
  [isError |-> isError, hasMessage |-> hasMessage, message |-> message]
\* new Error(message)
Error(message) == Thrown(TRUE, TRUE, message)
\* The TypeError the runtime raises on a property read of undefined or null
TypeError == Error("TypeError: cannot read properties of undefined or null")
NoThrown == Thrown(FALSE, FALSE, "")

\* The completion of a call: a returned value or a thrown one.
Return(v) == [threw |-> FALSE, exc |-> NoThrown, val |-> v]
Throw(e) == [threw |-> TRUE, exc |-> e, val |-> <<>>]

\* ConvertResult, and the outcome of a call that let an exception escape
Success(markdown) ==
  [kind |-> "success", markdown |-> markdown, error |-> "",
   exc |-> NoThrown]
Failure(error) ==
  [kind |-> "failure", markdown |-> <<>>, error |-> error, exc |-> NoThrown]
Escaped(e) == [kind |-> "threw", markdown |-> <<>>, error |-> "", exc |-> e]
NoResult == [kind |-> "none", markdown |-> <<>>, error |-> "", exc |-> NoThrown]

\* A collaborator call made during a conversion: the extraction library or
\* the renderer, on the body (el = 0) or on the el-th marker element.
Call(op, el) == [op |-> op, el |-> el]

\* with both its results, a step of a conversion: the value and the calls
Step(v, log) == [v |-> v, log |-> log]

(***************************************************************************)
(* functions/readability.ts                                                *)
(***************************************************************************)

\* globalThis.location?.hostname.includes(CLAUDE_AI_DOMAIN) ?? false
\* The optional chain guards location only: with a location whose hostname
\* is undefined, the call of includes raises a TypeError.
IsClaudeAiSite(loc) ==
  CASE loc.kind = "absent" -> Return(FALSE)
    [] loc.kind = "nohost" -> Throw(TypeError)
    [] loc.kind = "host" -> Return(Includes(loc.hostname, CLAUDE_AI_DOMAIN))

\* document.querySelectorAll and Array.from
ExtractClaudeAiElements(doc) ==
  IF doc.qsa.kind = "throws" THEN Throw(doc.qsa.exc) ELSE Return(doc.qsa.els)

\* The extracted payload or null, as a completion
Extracted(isNull, payload) ==
  [threw |-> FALSE, exc |-> NoThrown, isNull |-> isNull, payload |-> payload]

\* extractPageContent without its try and catch
ExtractPageContentUncaught(ext) ==
  [threw |-> ext.kind = "throws", exc |-> ext.exc,
   isNull |-> ext.kind # "payload", payload |-> ext.payload]

\* try { parse and extract } catch { return null }: null when the library
\* throws or finds no article, else the payload it returns.
ExtractPageContent(ext) == Extracted(ext.kind # "payload", ext.payload)

\* JavaScript truthiness of an optional string: undefined, null and "" are
\* falsy
Truthy(opt) == opt.def = "value" /\ opt.str # <<>>

\* What convertToMarkdown did: v.md is the rendered text, v.rendered tells
\* whether the renderer was invoked.
Converted(md) ==
  [threw |-> FALSE, exc |-> NoThrown, md |-> md, rendered |-> TRUE]
Rendering(completion) ==
  [threw |-> completion.threw, exc |-> completion.exc,
   md |-> completion.val, rendered |-> TRUE]
Refused(e) == [threw |-> TRUE, exc |-> e, md |-> <<>>, rendered |-> FALSE]

\* the content test without its trim
ContentUnusableUntrimmed(content) == ~Truthy(content)

\* !content || content.trim() === ""
ContentUnusable(content) == ~Truthy(content) \/ Trim(content.str) = <<>>

\* convertToMarkdown of the @mozilla/readability build
ConvertToMarkdownMozilla(extracted) ==
  IF extracted.isNull THEN Refused(Error(EXTRACTION_ERROR))
  ELSE IF ContentUnusable(extracted.payload.content)
  THEN Refused(Error(CONTENT_PROPERTY_ERROR))
  ELSE Converted(ConvertHtmlToMarkdown(extracted.payload.content.str))

\* convertToMarkdown of the @mizchi/readability build: toMarkdown is the
\* library's, which returns a text or throws.  Reading root of null raises
\* a TypeError.
ConvertToMarkdownMizchi(extracted) ==
  IF extracted.isNull THEN Refused(TypeError)
  ELSE IF extracted.payload.root.def # "value"
  THEN Refused(Error(ROOT_PROPERTY_ERROR))
  ELSE Rendering(extracted.payload.root.toMarkdown)

ConvertToMarkdown(be, extracted) ==
  IF be = "mozilla" THEN ConvertToMarkdownMozilla(extracted)
  ELSE ConvertToMarkdownMizchi(extracted)

\* The calls an extraction followed by a conversion made on element el
Calls(el, converted) ==
  <<Call("extract", el)>>
    \o (IF converted.rendered THEN <<Call("render", el)>> ELSE <<>>)

\* string | null
NullMarkdown == [isNull |-> TRUE, md |-> <<>>]
Markdown(md) == [isNull |-> FALSE, md |-> md]

\* return convertToMarkdown(extracted), in the try block: an exception
\* becomes null
ElementConverted(el, converted) ==
  Step(IF converted.threw THEN NullMarkdown ELSE Markdown(converted.md),
       Calls(el, converted))

\* if (!extracted) return null, in the try block, whose catch answers null
\* for whatever the calls in it throw
ElementExtracted(be, el, extracted) ==
  IF extracted.threw THEN Step(NullMarkdown, <<Call("extract", el)>>)
  ELSE IF extracted.isNull THEN Step(NullMarkdown, <<Call("extract", el)>>)
  ELSE ElementConverted(el, ConvertToMarkdown(be, extracted))

\* convertElementToMarkdown: every failure becomes null
ConvertElementToMarkdown(be, element, el) ==
  IF element.kind = "throws" THEN Step(NullMarkdown, <<>>)
  ELSE ElementExtracted(be, el, ExtractPageContent(element.ext))

\* the test of the loop without its trim
KeepsUntrimmed(markdown) == ~markdown.isNull /\ markdown.md # <<>>

\* markdown && markdown.trim()
Keeps(markdown) ==
  ~markdown.isNull /\ markdown.md # <<>> /\ Trim(markdown.md) # <<>>

\* markdownSections.push(markdown.trim()), then the rest of the loop
Pushed(one, more) ==
  Step((IF Keeps(one.v) THEN <<Trim(one.v.md)>> ELSE <<>>) \o more.v,
       one.log \o more.log)

\* The loop of convertElementsToMarkdownSections from element el on
RECURSIVE SectionsFrom(_, _, _)
SectionsFrom(be, elements, el) ==
  IF el > Len(elements) THEN Step(<<>>, <<>>)
  ELSE Pushed(ConvertElementToMarkdown(be, elements[el], el),
              SectionsFrom(be, elements, el + 1))

ConvertElementsToMarkdownSections(be, elements) ==
  SectionsFrom(be, elements, 1)

\* the sections joined by a blank line only
CombineWithBlankLine(sections) == Join(sections, <<"\n", "\n">>)

\* sections.join(SECTION_SEPARATOR)
CombineMarkdownSections(sections) == Join(sections, SECTION_SEPARATOR)

\* the catch clause that always answers the default message
CatchMessageDefault(e) == DEFAULT_ERROR_MESSAGE

\* catch (error): error instanceof Error ? error.message : DEFAULT
CatchMessage(e) == IF e.isError THEN e.message ELSE DEFAULT_ERROR_MESSAGE

\* processClaudeAiPage from the test of the sections on
ClaudeSections(sections) ==
  IF Len(sections.v) = 0
  THEN Step(Failure(EMPTY_MARKDOWN_ERROR), sections.log)
  ELSE Step(Success(CombineMarkdownSections(sections.v)), sections.log)

\* processClaudeAiPage without the test of elements.length
ClaudeElementsUnchecked(be, elements) ==
  IF elements.threw THEN Step(Failure(CatchMessage(elements.exc)), <<>>)
  ELSE ClaudeSections(ConvertElementsToMarkdownSections(be, elements.val))

\* processClaudeAiPage from the test of elements.length on, and the catch
ClaudeElements(be, elements) ==
  IF elements.threw THEN Step(Failure(CatchMessage(elements.exc)), <<>>)
  ELSE IF Len(elements.val) = 0
  THEN Step(Failure(CLAUDE_AI_NO_ELEMENTS_ERROR), <<>>)
  ELSE ClaudeSections(ConvertElementsToMarkdownSections(be, elements.val))

ProcessClaudeAiPage(be, doc) ==
  ClaudeElements(be, ExtractClaudeAiElements(doc))

\* document.body.outerHTML
BodyOuterHTML(doc) ==
  CASE doc.body.kind = "null" -> Throw(TypeError)
    [] doc.body.kind = "throws" -> Throw(doc.body.exc)
    [] doc.body.kind = "ok" -> Return(doc.body.ext)

\* the test of the rendered text without its trim
IsBlankUntrimmed(markdown) == markdown = <<>>

\* !markdown.trim()
IsBlank(markdown) == Trim(markdown) = <<>>

\* The try block of convertPageToMarkdown from the test of the markdown
\* on, and its catch
GenericConverted(converted) ==
  Step(IF converted.threw THEN Failure(CatchMessage(converted.exc))
       ELSE IF IsBlank(converted.md) THEN Failure(EMPTY_MARKDOWN_ERROR)
       ELSE Success(converted.md),
       Calls(0, converted))

\* from if (!extracted) on; the catch of the enclosing try block takes
\* whatever the calls in it throw
GenericExtracted(be, extracted) ==
  IF extracted.threw
  THEN Step(Failure(CatchMessage(extracted.exc)), <<Call("extract", 0)>>)
  ELSE IF extracted.isNull
  THEN Step(Failure(EXTRACTION_ERROR), <<Call("extract", 0)>>)
  ELSE GenericConverted(ConvertToMarkdown(be, extracted))

\* from the read of document.body.outerHTML on
GenericHtml(be, html) ==
  IF html.threw THEN Step(Failure(CatchMessage(html.exc)), <<>>)
  ELSE GenericExtracted(be, ExtractPageContent(html.val))

\* The try block of convertPageToMarkdown and its catch
ProcessGenericPage(be, doc) == GenericHtml(be, BodyOuterHTML(doc))

\* The outcome of a conversion: the path taken, the result, the calls made
Outcome(taken, r) == [path |-> taken, result |-> r.v, calls |-> r.log]

\* if (isClaudeAiSite()) return processClaudeAiPage(document), and the rest
Routed(be, doc, site) ==
  IF site.threw
  THEN [path |-> "threw", result |-> Escaped(site.exc), calls |-> <<>>]
  ELSE IF site.val THEN Outcome("claude", ProcessClaudeAiPage(be, doc))
  ELSE Outcome("generic", ProcessGenericPage(be, doc))

\* convertPageToMarkdown: isClaudeAiSite is called outside every try block.
ConvertPageToMarkdownOf(be, loc, doc) == Routed(be, doc, IsClaudeAiSite(loc))

(***************************************************************************)
(* The inputs of a conversion: the ambient location, the document, and     *)
(* what the libraries answer for its markup                                *)
(***************************************************************************)

\* the most tokens a generated text is made of
MaxParts == 3
\* the most marker elements of a document
MaxElements == 2

\* All texts made of at most n of the given tokens
RECURSIVE Texts(_, _)
Texts(tokens, n) ==
  IF n = 0 THEN {<<>>}
  ELSE LET shorter == Texts(tokens, n - 1)
       IN shorter \cup {t \o x : t \in tokens, x \in shorter}

\* All lists of at most n members of S
Lists(S, n) == UNION {[1..k -> S] : k \in 0..n}

HtmlTokens ==
  {<<" ">>, <<"\n">>, <<"x">>, <<"<", "p", ">">>, <<"<", "/", "p", ">">>, <<"<", "b", "r", ">">>}
MarkdownTokens == {<<" ">>, <<"\n">>, <<"x">>}

\* globalThis.location: undefined, an object without hostname, or one with
Absent == [kind |-> "absent", hostname |-> <<>>]
NoHostname == [kind |-> "nohost", hostname |-> <<>>]
Host(h) == [kind |-> "host", hostname |-> h]

Hostnames ==
  {<<"c", "l", "a", "u", "d", "e", ".", "a", "i">>,
   <<"w", "w", "w", ".", "c", "l", "a", "u", "d", "e", ".", "a", "i">>,
   <<"f", "a", "k", "e", "-", "c", "l", "a", "u", "d", "e", ".", "a", "i", ".", "e", "v", "i", "l", ".", "c", "o", "m">>,
   <<"e", "x", "a", "m", "p", "l", "e", ".", "c", "o", "m">>,
   <<"c", "l", "a", "u", "d", "e", ".", "a">>,
   <<>>}

Locations == {Absent, NoHostname} \cup {Host(h) : h \in Hostnames}

ThrownValues ==
  {Error("boom"), Error(""), Thrown(FALSE, FALSE, ""),
   Thrown(FALSE, TRUE, "boom")}

\* an optional string property
Undefined == [def |-> "undefined", str |-> <<>>]
Null == [def |-> "null", str |-> <<>>]
Str(s) == [def |-> "value", str |-> s]

\* the root property of the @mizchi/readability payload: missing, or a node
\* tree together with the completion of toMarkdown on it
NoNode(def) == [def |-> def, toMarkdown |-> Return(<<>>)]
Node(completion) == [def |-> "value", toMarkdown |-> completion]

Payload(content, root) == [content |-> content, root |-> root]
NoPayload == Payload(Undefined, NoNode("undefined"))

\* what the extraction library does with a markup
ExtThrows == [kind |-> "throws", exc |-> Error("boom"), payload |-> NoPayload]
ExtNull == [kind |-> "null", exc |-> NoThrown, payload |-> NoPayload]
ExtPayload(p) == [kind |-> "payload", exc |-> NoThrown, payload |-> p]

Contents(be, texts) ==
  IF be = "mozilla"
  THEN {Payload(c, NoNode("undefined")) :
          c \in {Undefined, Null} \cup {Str(t) : t \in texts}}
  ELSE {Payload(Undefined, r) :
          r \in {NoNode("undefined"), NoNode("null")}
                  \cup {Node(Throw(e)) : e \in ThrownValues}
                  \cup {Node(Return(t)) : t \in texts}}

Extractions(be, texts) ==
  {ExtThrows, ExtNull} \cup {ExtPayload(p) : p \in Contents(be, texts)}

\* document.body: null, with an outerHTML that throws, or with a markup
Part(kind, e, ext) == [kind |-> kind, exc |-> e, ext |-> ext]
Bodies(be) ==
  {Part("null", NoThrown, ExtNull)}
    \cup {Part("throws", e, ExtNull) : e \in ThrownValues}
    \cup {Part("ok", NoThrown, x) :
            x \in Extractions(be, Texts(IF be = "mozilla" THEN HtmlTokens
                                        ELSE MarkdownTokens, MaxParts))}

\* the markups of marker elements
ElementTexts(be) ==
  IF be = "mozilla"
  THEN {<<"<", "p", ">", "a", "<", "/", "p", ">">>, <<" ", "b", "\n">>,
        <<"<", "b", "r", ">">>, <<" ", " ">>}
  ELSE {<<" ", "a", "\n">>, <<"b">>, <<" ", "\n">>}

Elements(be) ==
  {Part("throws", Error("boom"), ExtNull)}
    \cup {Part("ok", NoThrown, x) : x \in Extractions(be, ElementTexts(be))}

\* document.querySelectorAll: throws, or returns the marker elements
Query(kind, e, els) == [kind |-> kind, exc |-> e, els |-> els]
Queries(be) ==
  {Query("throws", e, <<>>) : e \in ThrownValues}
    \cup {Query("list", NoThrown, l) : l \in Lists(Elements(be), MaxElements)}

Document(body, qsa) == [body |-> body, qsa |-> qsa]

\* A conversion reads the body or the marker elements, never both: the
\* documents vary one of them and hold the other to a plain value.
PlainBody(be) ==
  Part("ok", NoThrown,
       ExtPayload(IF be = "mozilla"
                  THEN Payload(Str(<<"x">>), NoNode("undefined"))
                  ELSE Payload(Undefined, Node(Return(<<"x">>)))))
PlainQueries(be) ==
  {Query("list", NoThrown, <<>>), Query("list", NoThrown, <<PlainBody(be)>>)}

Documents(be) ==
  {Document(b, q) : b \in Bodies(be), q \in PlainQueries(be)}
    \cup {Document(PlainBody(be), q) : q \in Queries(be)}

(***************************************************************************)
(* The renderer on its own: the markups it is given                        *)
(***************************************************************************)

\* the most tokens of a text of line breaks
MaxBreaks == 6
\* the most items of a list
MaxItems == 2

\* A markup together with how it was written: a text of tokens, a run of
\* lists, an element of a tag name, or an element written with entities
Fragment(kind, html, lists, name, inner) ==
  [kind |-> kind, html |-> html, lists |-> lists, name |-> name,
   inner |-> inner]
NoFragment == Fragment("none", <<>>, <<>>, <<>>, <<>>)

OpenTagText(name) == <<"<">> \o name \o <<">">>
CloseTagText(name) == <<"<", "/">> \o name \o <<">">>
ElementText(name, inner) == OpenTagText(name) \o inner \o CloseTagText(name)

\* the same element with its angle brackets written as entities
EntityText(name, inner) ==
  <<"&", "l", "t", ";">> \o name \o <<"&", "g", "t", ";">> \o inner
    \o <<"&", "l", "t", ";", "/">> \o name \o <<"&", "g", "t", ";">>

\* a list: ol or ul, and the texts of its li items
List(ordered, items) == [ordered |-> ordered, items |-> items]
ListText(l) ==
  ElementText(IF l.ordered THEN <<"o", "l">> ELSE <<"u", "l">>,
              Concat([k \in 1..Len(l.items) |->
                        ElementText(<<"l", "i">>, l.items[k])]))

PlainTokens ==
  {<<" ">>, <<"\n">>, <<"x">>, <<"&", "a", "m", "p", ";">>, <<"<">>, <<">">>}
BreakTokens == {<<" ">>, <<"\n">>, <<"x">>, <<"<", "b", "r", ">">>}
ItemTexts == {<<"a">>, <<"b">>}
MappedTags ==
  {<<"h", "1">>, <<"h", "2">>, <<"h", "3">>, <<"h", "4">>, <<"h", "5">>,
   <<"h", "6">>, <<"p">>, <<"s", "t", "r", "o", "n", "g">>, <<"b">>,
   <<"e", "m">>, <<"i">>, <<"c", "o", "d", "e">>, <<"p", "r", "e">>}

TextFragments ==
  {Fragment("text", t, <<>>, <<>>, <<>>) :
     t \in Texts(PlainTokens, MaxParts) \cup Texts(BreakTokens, MaxBreaks)}
ListFragments ==
  {Fragment("lists", Concat([k \in 1..Len(ls) |-> ListText(ls[k])]), ls,
            <<>>, <<>>) :
     ls \in Lists({List(o, items) : o \in BOOLEAN,
                                    items \in Lists(ItemTexts, MaxItems)}, 2)}
TagFragments ==
  {Fragment("tag", ElementText(n, i), <<>>, n, i) :
     n \in MappedTags, i \in {<<"x">>, EntityText(<<"b">>, <<"x">>)}}
EntityFragments ==
  {Fragment("entity", EntityText(n, <<"x">>), <<>>, n, <<"x">>) :
     n \in MappedTags}

Fragments ==
  TextFragments \cup ListFragments \cup TagFragments \cup EntityFragments

(***************************************************************************)
(* The toasts: the elements shown in document.body and the timers that     *)
(* take them away, on a clock of milliseconds                              *)
(***************************************************************************)

\* the most toasts shown in a run
MaxToasts == 2

TOAST_ID == "page-to-markdown-toast"
DEFAULT_DURATION == 3000
FADE_OUT_DELAY == 200
\* parseFloat(ANIMATION_DURATION) * 1000
ANIMATION_DURATION == 300

\* A toast element: what createToastElement gave it, when it was appended,
\* whether it is in the document, and which timer faded it out and took it
\* away (0: none; removedBy "replacement" for removeExistingToast)
Toast(type, message, duration, at) ==
  [id |-> TOAST_ID, type |-> type, message |-> message,
   duration |-> duration, shownAt |-> at, attached |-> TRUE,
   fadedBy |-> 0, fadedAt |-> 0, removedBy |-> "none", removedAt |-> 0]

\* A pending setTimeout: the callback of showToast of the owner-th toast
\* ("dismiss"), or the callback of removeToastWithAnimation for the target
\* ("remove") entered from the owner's dismissal
Timer(kind, owner, target, due) ==
  [kind |-> kind, owner |-> owner, target |-> target, due |-> due]

\* the delay setTimeout takes: a negative one counts as zero
Delay(ms) == IF ms < 0 THEN 0 ELSE ms

\* document.getElementById(TOAST_ID): the index of the first toast in the
\* document, 0 for null
GetElementById(ts) ==
  IF \E k \in 1..Len(ts) : ts[k].attached
  THEN Least({k \in 1..Len(ts) : ts[k].attached})
  ELSE 0

\* toast.remove() of the k-th toast (k = 0: no toast, nothing to do)
Remove(ts, k, by, at) ==
  [j \in 1..Len(ts) |->
     IF j = k /\ ts[j].attached
     THEN [ts[j] EXCEPT !.attached = FALSE, !.removedBy = by,
                        !.removedAt = at]
     ELSE ts[j]]

\* a removal that leaves the toast in place
KeepExistingToast(ts, at) == ts

\* removeExistingToast()
RemoveExistingToast(ts, at) ==
  Remove(ts, GetElementById(ts), "replacement", at)

\* document.body.appendChild(createToastElement(options))
AppendToast(ts, type, message, duration, at) ==
  Append(ts, Toast(type, message, duration, at))

\* classList.add("toast-fade-out") on the k-th toast, by the dismissal of
\* the owner-th: the first fade-out is the one recorded
FadeOut(ts, k, owner, at) ==
  [j \in 1..Len(ts) |->
     IF j = k /\ ts[j].fadedBy = 0
     THEN [ts[j] EXCEPT !.fadedBy = owner, !.fadedAt = at]
     ELSE ts[j]]

\* const currentToast = document.getElementById(TOAST_ID)
CurrentToast(ts, owner) == GetElementById(ts)

\* The pending promise of removeToastWithAnimation(toast) for the target,
\* entered from the dismissal of the owner
Removal(owner, target) == [owner |-> owner, target |-> target]

\* a callback that resolves only when it removed the toast
ResolveIfRemoved(ps, t, ts) ==
  IF ts[t.target].attached THEN ps \ {Removal(t.owner, t.target)} ELSE ps

\* resolve() at the end of the timer callback of removeToastWithAnimation
Resolve(ps, t, ts) == ps \ {Removal(t.owner, t.target)}

\* the timers due first
DueFirst(tm) == {t \in tm : \A u \in tm : t.due <= u.due}

(***************************************************************************)
(* The content script: the header of the copied text, the clipboard and    *)
(* the handler of a CONVERT_TO_MARKDOWN request                            *)
(***************************************************************************)

\* The messages of the content script, by name (the texts are Japanese)
ERROR_CONVERT_PREFIX == "ERROR_CONVERT_PREFIX"
ERROR_CLIPBOARD_COPY == "ERROR_CLIPBOARD_COPY"
ERROR_UNEXPECTED == "ERROR_UNEXPECTED"
ERROR_PREFIX == "ERROR_PREFIX"
SUCCESS_COPY_MESSAGE == "SUCCESS_COPY_MESSAGE"
MARKDOWN_SEPARATOR == <<"\n", "\n", "-", "-", "-", "\n", "\n">>

\* The title createMarkdownHeader puts for an empty one: two characters,
\* written here by their readings
Untitled == <<"MU", "DAI">>

\* document.title and globalThis.location?.href of the page
Page(title, href) == [title |-> title, href |-> href]

\* the header that passes the title on as it is
HeaderOfTitle(pg) ==
  <<"#", " ">> \o pg.title \o <<"\n", "\n", "U", "R", "L", ":", " ">>
    \o (IF Truthy(pg.href) THEN pg.href.str ELSE <<>>)

\* createMarkdownHeader()
CreateMarkdownHeader(pg) ==
  <<"#", " ">> \o (IF pg.title # <<>> THEN pg.title ELSE Untitled)
    \o <<"\n", "\n", "U", "R", "L", ":", " ">>
    \o (IF Truthy(pg.href) THEN pg.href.str ELSE <<>>)

\* finalMarkdown of handleConvertToMarkdown
FinalMarkdown(pg, markdown) ==
  CreateMarkdownHeader(pg) \o MARKDOWN_SEPARATOR \o markdown

\* The environment of the clipboard: navigator (undefined, without or with
\* a clipboard), isSecureContext, what writeText does, and where the
\* fallback fails ("none": nowhere) with the answer of execCommand
Fallback(failAt, execResult) == [failAt |-> failAt, execResult |-> execResult]
Env(navigator, secure, writeText, fallback) ==
  [navigator |-> navigator, secure |-> secure, writeText |-> writeText,
   fallback |-> fallback]

\* The completion of copyToClipboardFallback: the value returned or the
\* exception thrown, and the textareas it leaves in document.body
Copied(kind, value, exc, left) ==
  [kind |-> kind, value |-> value, exc |-> exc, left |-> left]

\* the body of copyToClipboardFallback without its catch clause
CopyToClipboardFallbackUncaught(fb) ==
  IF fb.failAt = "none" THEN Copied("return", fb.execResult, NoThrown, 0)
  ELSE IF fb.failAt \in {"createElement", "appendChild"}
  THEN Copied("throw", FALSE, Error("boom"), 0)
  ELSE Copied("throw", FALSE, Error("boom"), 1)

\* catch { return false; } of copyToClipboardFallback
FallbackCaught(done) ==
  IF done.kind = "throw" THEN Copied("return", FALSE, NoThrown, done.left)
  ELSE done

\* copyToClipboardFallback(text)
CopyToClipboardFallback(fb) ==
  FallbackCaught(CopyToClipboardFallbackUncaught(fb))

\* The promise of copyToClipboard
Pending == [state |-> "pending", value |-> FALSE, exc |-> NoThrown]
Resolved(v) == [state |-> "resolved", value |-> v, exc |-> NoThrown]
Rejected(e) == [state |-> "rejected", value |-> FALSE, exc |-> e]
NoPromise == [state |-> "none", value |-> FALSE, exc |-> NoThrown]

\* The steps of a handling, in the order they are taken
Did(op, text, message) == [op |-> op, text |-> text, message |-> message]
NoText == <<"NOTHING">>

\* The state after a run of copyToClipboard up to its next suspension
Copying(p, log, clip, left, at) ==
  [promise |-> p, steps |-> log, clipboard |-> clip, textareas |-> left,
   pc |-> at]

\* copyToClipboard settles on the completion of the fallback
FallbackDone(done, text, log, clip) ==
  Copying(IF done.kind = "throw" THEN Rejected(done.exc)
          ELSE Resolved(done.value),
          Append(log, Did("copyToClipboardFallback", text, <<>>)),
          IF done.kind = "return" /\ done.value THEN text ELSE clip,
          done.left, "awaiting")

\* return copyToClipboardFallback(text), in the try block or in the catch
RunFallback(e, text, log, clip) ==
  FallbackDone(CopyToClipboardFallback(e.fallback), text, log, clip)

\* the fallback taken also when the Clipboard API is there
CopyToClipboardAlwaysFallback(e, text, log, clip) ==
  RunFallback(e, text, Append(log, Did("copyToClipboard", text, <<>>)), clip)

\* copyToClipboard(text) up to the await of writeText
CopyToClipboardOf(e, text, log, clip) ==
  IF e.navigator = "undefined"
  THEN RunFallback(e, text, Append(log, Did("copyToClipboard", text, <<>>)),
                   clip)
  ELSE IF e.navigator = "clipboard" /\ e.secure
  THEN IF e.writeText = "throws"
       THEN RunFallback(e, text,
                        Append(Append(log, Did("copyToClipboard", text, <<>>)),
                               Did("writeText", text, <<>>)), clip)
       ELSE Copying(Pending,
                    Append(Append(log, Did("copyToClipboard", text, <<>>)),
                           Did("writeText", text, <<>>)), clip, 0, "writing")
  ELSE RunFallback(e, text, Append(log, Did("copyToClipboard", text, <<>>)),
                   clip)

\* copyToClipboard from the settlement of writeText on
WriteTextSettled(e, text, log, clip) ==
  IF e.writeText = "resolves"
  THEN Copying(Resolved(TRUE), log, text, 0, "awaiting")
  ELSE RunFallback(e, text, log, clip)

\* catch (error) of handleConvertToMarkdown
HandlerCatch(e) ==
  Did("showErrorToast", <<>>,
      <<ERROR_PREFIX, IF e.isError THEN e.message ELSE ERROR_UNEXPECTED>>)

\* document.body is an element, not null
HasBody(doc) == doc.body.kind # "null"

\* a call of showErrorToast or showSuccessToast that throws
Throwing(d) ==
  Did(IF d.op = "showSuccessToast" THEN "showSuccessToast throws"
      ELSE "showErrorToast throws", d.text, d.message)

\* showErrorToast in the catch clause: without a body showToast throws a
\* TypeError at document.body.appendChild, and nothing catches it
CatchToast(body, e) ==
  IF body THEN <<HandlerCatch(e)>> ELSE <<Throwing(HandlerCatch(e))>>

\* a toast call in the try block: the TypeError of a showToast without a
\* body is caught by the catch clause, which calls showErrorToast
TryToast(body, d) ==
  IF body THEN <<d>> ELSE <<Throwing(d)>> \o CatchToast(body, TypeError)

\* a handler that copies whatever the conversion returned
HandleResultUnchecked(r, pg, e, clip, body) ==
  IF r.kind = "threw"
  THEN Copying(NoPromise,
               <<Did("convertPageToMarkdown", <<>>, <<>>)>>
                 \o CatchToast(body, r.exc),
               clip, 0, "done")
  ELSE CopyToClipboardOf(e, FinalMarkdown(pg, r.markdown),
                         <<Did("convertPageToMarkdown", <<>>, <<>>)>>, clip)

\* handleConvertToMarkdown from the result of the conversion to the await
\* of copyToClipboard
HandleResult(r, pg, e, clip, body) ==
  IF r.kind = "threw"
  THEN Copying(NoPromise,
               <<Did("convertPageToMarkdown", <<>>, <<>>)>>
                 \o CatchToast(body, r.exc),
               clip, 0, "done")
  ELSE IF r.kind = "failure"
  THEN Copying(NoPromise,
               <<Did("convertPageToMarkdown", <<>>, <<>>)>>
                 \o TryToast(body, Did("showErrorToast", <<>>,
                                       <<ERROR_CONVERT_PREFIX, r.error>>)),
               clip, 0, "done")
  ELSE CopyToClipboardOf(e, FinalMarkdown(pg, r.markdown),
                         <<Did("convertPageToMarkdown", <<>>, <<>>)>>, clip)

\* handleConvertToMarkdown after the await of copyToClipboard: the toast
\* calls it makes
Notification(p, body) ==
  IF p.state = "rejected" THEN CatchToast(body, p.exc)
  ELSE IF ~p.value
  THEN TryToast(body, Did("showErrorToast", <<>>, <<ERROR_CLIPBOARD_COPY>>))
  ELSE TryToast(body, Did("showSuccessToast", <<>>, <<SUCCESS_COPY_MESSAGE>>))

\* What a toast call of the handler does to the toasts of the document:
\* showToast removes the toast there is and appends its own, and without a
\* body it throws after the removal
ShowToastOf(ts, d, at) ==
  IF d.op \in {"showErrorToast", "showSuccessToast"}
  THEN AppendToast(RemoveExistingToast(ts, at),
                   IF d.op = "showSuccessToast" THEN "success" ELSE "error",
                   d.message, DEFAULT_DURATION, at)
  ELSE IF d.op \in {"showErrorToast throws", "showSuccessToast throws"}
  THEN RemoveExistingToast(ts, at)
  ELSE ts

\* the toasts after the calls of a run of steps
RECURSIVE ToastsAfter(_, _, _)
ToastsAfter(ts, ds, at) ==
  IF ds = <<>> THEN ts
  ELSE ToastsAfter(ShowToastOf(ts, Head(ds), at), Tail(ds), at)

\* the timers after showToast has appended the toasts from the given one on
TimersAfter(tm, from, ts, at) ==
  tm \cup {Timer("dismiss", k, 0, at + Delay(DEFAULT_DURATION - FADE_OUT_DELAY)) :
            k \in from..Len(ts)}

\* the steps a run has added to a log
Added(log, longer) == SubSeq(longer, Len(log) + 1, Len(longer))

\* the text handed to copyToClipboard in a handling
Handed(log) ==
  LET at == {k \in 1..Len(log) : log[k].op = "copyToClipboard"}
  IN IF at = {} THEN NoText ELSE log[Least(at)].text

\* A message the content script has received and the handling it started
Request(type, at, r, log, p) ==
  [type |-> type, pc |-> at, result |-> r, steps |-> log, promise |-> p]

\* the listener of setupMessageListener on a message of another type
Ignored(type) == Request(type, "ignored", NoResult, <<>>, NoPromise)

\* the handling a message started, after a run of it
Handling(r, out) ==
  Request(r.type, out.pc, r.result, out.steps, out.promise)

\* a continuation of a handling is waiting in the microtask queue
Continuing(rs) == \E i \in 1..Len(rs) : rs[i].pc = "awaiting"

(***************************************************************************)
(* The background script: background.ts                                    *)
(***************************************************************************)

ERROR_NO_ACTIVE_TAB == "ERROR_NO_ACTIVE_TAB"
ERROR_MESSAGE_SEND == "ERROR_MESSAGE_SEND"
CONVERT_TO_MARKDOWN == "CONVERT_TO_MARKDOWN"

\* tab.id: a number, or undefined
TabId(n) == [kind |-> "number", n |-> n]
NoTabId == [kind |-> "undefined", n |-> 0]
Tab(id, active, currentWindow) ==
  [id |-> id, active |-> active, currentWindow |-> currentWindow]

\* chrome.tabs.query({ active: true, currentWindow: true })
TabsQuery(ts) == SelectSeq(ts, LAMBDA t : t.active /\ t.currentWindow)

\* const [tab] = ...; tab?.id
FirstTabId(answer) == IF answer = <<>> THEN NoTabId ELSE answer[1].id

\* the truth value of tab?.id
HasTabId(id) == id.kind = "number" /\ id.n # 0

\* A click on the icon and the point its sendMessageToActiveTab is at
Click(at, to) == [pc |-> at, to |-> to]
Logged(message, error) == [message |-> message, error |-> error]
Sent(to, type, click) == [to |-> to, type |-> type, click |-> click]

\* What a run of sendMessageToActiveTab leaves behind
Ran(c, log, un) == [click |-> c, console |-> log, unhandled |-> un]

\* sendMessageToActiveTab without its catch clause: the promise rejects
\* and handleExtensionClick, which does not await it, leaves it unhandled
SendMessageUncaught(log, un, e) == Ran(Click("done", NoTabId), log, un + 1)

\* catch (error) { console.error(ERROR_MESSAGE_SEND, error); }
SendMessageCaught(log, un, e) ==
  Ran(Click("done", NoTabId), Append(log, Logged(ERROR_MESSAGE_SEND, e)), un)

\* sendMessageToActiveTab from the answer of the query to the send
Queried(answer, log, un) ==
  IF ~HasTabId(FirstTabId(answer))
  THEN Ran(Click("done", NoTabId),
           Append(log, Logged(ERROR_NO_ACTIVE_TAB, "")), un)
  ELSE Ran(Click("sending", FirstTabId(answer)), log, un)

\* the clicks with one of them moved on
Moved(cs, i, c) == [cs EXCEPT ![i] = c]

\* The state of the parts a specification leaves alone
NotHandling ==
  /\ page = Page(<<>>, Undefined)
  /\ env = Env("undefined", FALSE, "throws", Fallback("none", FALSE))
  /\ steps = <<>>
  /\ promise = NoPromise
  /\ clipboard = NoText
  /\ textareas = 0
NotReceiving == requests = <<>>
NotClicking ==
  /\ tabs = <<>>
  /\ clicks = <<>>
  /\ delivered = <<>>
  /\ console = <<>>
  /\ unhandled = 0
NotRendering ==
  /\ fragment = NoFragment
  /\ rendered = <<>>
NotToasting ==
  /\ toasts = <<>>
  /\ timers = {}
  /\ removals = {}
  /\ now = 0

(***************************************************************************)
(* The state machine: one conversion of a document in an ambient context   *)
(***************************************************************************)

Init ==
  /\ backend \in Backends
  /\ location \in Locations
  /\ document \in Documents(backend)
  /\ pc = "ready"
  /\ path = "none"
  /\ result = NoResult
  /\ calls = <<>>
  /\ NotHandling
  /\ NotRendering
  /\ NotToasting
  /\ NotReceiving
  /\ NotClicking

\* convertPageToMarkdown(document)
ConvertPageToMarkdown ==
  /\ pc = "ready"
  /\ \E out \in {ConvertPageToMarkdownOf(backend, location, document)} :
       /\ path' = out.path
       /\ result' = out.result
       /\ calls' = out.calls
  /\ pc' = "done"
  /\ UNCHANGED <<backend, location, document>>
  /\ UNCHANGED <<handling, rendering, toasting, receiving, background>>

Next == ConvertPageToMarkdown

Spec == Init /\ [][Next]_vars

(***************************************************************************)
(* The content script: one CONVERT_TO_MARKDOWN request on a page           *)
(***************************************************************************)

Titles == {<<>>, <<"T">>, <<"#", " ", "\n">>}
Hrefs(loc) ==
  IF loc.kind = "absent" THEN {Undefined}
  ELSE {Str(<<>>), Str(<<"h", ":", "/", "/", "e", "/">>)}
Pages(loc) == {Page(t, h) : t \in Titles, h \in Hrefs(loc)}

\* without a body the fallback fails at document.body.appendChild
Fallbacks(doc) ==
  IF HasBody(doc)
  THEN {Fallback("none", TRUE), Fallback("none", FALSE)}
         \cup {Fallback(s, FALSE) :
                 s \in {"createElement", "focus", "select", "execCommand"}}
  ELSE {Fallback("appendChild", FALSE)}
Envs(doc) ==
  {Env(n, s, w, f) : n \in {"undefined", "plain", "clipboard"},
                     s \in BOOLEAN,
                     w \in {"resolves", "rejects", "throws"},
                     f \in Fallbacks(doc)}

HandledLocations ==
  {Absent, NoHostname, Host(<<"c", "l", "a", "u", "d", "e", ".", "a", "i">>),
   Host(<<"e", "x", "a", "m", "p", "l", "e", ".", "c", "o", "m">>)}
HandledBodies(be) ==
  {Part("null", NoThrown, ExtNull), Part("throws", Error("boom"), ExtNull),
   PlainBody(be)}
HandledDocuments(be) ==
  {Document(b, q) : b \in HandledBodies(be), q \in PlainQueries(be)}

HandlerInit ==
  /\ backend \in Backends
  /\ location \in HandledLocations
  /\ document \in HandledDocuments(backend)
  /\ pc = "ready"
  /\ path = "none"
  /\ result = NoResult
  /\ calls = <<>>
  /\ page \in Pages(location)
  /\ env \in Envs(document)
  /\ steps = <<>>
  /\ promise = NoPromise
  /\ clipboard = NoText
  /\ textareas = 0
  /\ NotRendering
  /\ NotToasting
  /\ NotReceiving
  /\ NotClicking

\* handleConvertToMarkdown() up to its await
HandleConvertToMarkdown ==
  /\ pc = "ready"
  /\ \E conv \in {ConvertPageToMarkdownOf(backend, location, document)} :
       /\ path' = conv.path
       /\ result' = conv.result
       /\ calls' = conv.calls
       /\ \E out \in {HandleResult(conv.result, page, env, clipboard,
                                   HasBody(document))} :
            /\ steps' = out.steps
            /\ promise' = out.promise
            /\ clipboard' = out.clipboard
            /\ textareas' = textareas + out.textareas
            /\ pc' = out.pc
            /\ toasts' = ToastsAfter(toasts, out.steps, now)
  /\ timers' = TimersAfter(timers, Len(toasts) + 1, toasts', now)
  /\ UNCHANGED <<backend, location, document, page, env>>
  /\ UNCHANGED <<rendering, removals, now, receiving, background>>

\* navigator.clipboard.writeText settles and copyToClipboard runs on
WriteTextSettles ==
  /\ pc = "writing"
  /\ \E out \in {WriteTextSettled(env, Handed(steps), steps, clipboard)} :
       /\ steps' = out.steps
       /\ promise' = out.promise
       /\ clipboard' = out.clipboard
       /\ textareas' = textareas + out.textareas
       /\ pc' = out.pc
  /\ UNCHANGED <<conversion, page, env, rendering, toasting>>
  /\ UNCHANGED <<receiving, background>>

\* handleConvertToMarkdown() runs on after the await
Resume ==
  /\ pc = "awaiting"
  /\ steps' = steps \o Notification(promise, HasBody(document))
  /\ pc' = "done"
  /\ toasts' = ToastsAfter(toasts, Added(steps, steps'), now)
  /\ timers' = TimersAfter(timers, Len(toasts) + 1, toasts', now)
  /\ UNCHANGED <<conversion, page, env, promise, clipboard, textareas>>
  /\ UNCHANGED <<rendering, removals, now, receiving, background>>

HandlerNext == HandleConvertToMarkdown \/ WriteTextSettles \/ Resume

HandlerSpec == HandlerInit /\ [][HandlerNext]_vars

(***************************************************************************)
(* The renderer on its own: one call of convertHtmlToMarkdown              *)
(***************************************************************************)

\* the parts of the conversion core, left alone
NotConverting ==
  /\ backend = "mozilla"
  /\ location = Absent
  /\ document = Document(PlainBody("mozilla"), Query("list", NoThrown, <<>>))
  /\ path = "none"
  /\ result = NoResult
  /\ calls = <<>>

RenderInit ==
  /\ NotConverting
  /\ NotHandling
  /\ NotToasting
  /\ NotReceiving
  /\ NotClicking
  /\ pc = "ready"
  /\ fragment \in Fragments
  /\ rendered = <<>>

\* convertHtmlToMarkdown(html)
Render ==
  /\ pc = "ready"
  /\ rendered' = ConvertHtmlToMarkdown(fragment.html)
  /\ pc' = "done"
  /\ UNCHANGED <<conversion, handling, fragment, toasting>>
  /\ UNCHANGED <<receiving, background>>

RenderNext == Render

RenderSpec == RenderInit /\ [][RenderNext]_vars

(***************************************************************************)
(* The toasts: calls of showSuccessToast and showErrorToast, and timers    *)
(***************************************************************************)

Messages == {"copied", "failed"}
Durations == {DEFAULT_DURATION, 1000}
\* the time that passes between two events, when no timer is due before
Waits == {1000}

ToastInit ==
  /\ NotConverting
  /\ NotHandling
  /\ NotRendering
  /\ NotReceiving
  /\ NotClicking
  /\ pc = "ready"
  /\ toasts = <<>>
  /\ timers = {}
  /\ removals = {}
  /\ now = 0

\* showToast(options)
ShowToast(type, message, duration) ==
  /\ Len(toasts) < MaxToasts
  /\ toasts' = AppendToast(RemoveExistingToast(toasts, now), type, message,
                           duration, now)
  /\ timers' = timers \cup {Timer("dismiss", Len(toasts) + 1, 0,
                                  now + Delay(duration - FADE_OUT_DELAY))}
  /\ UNCHANGED <<receiving, background>>
  /\ UNCHANGED <<conversion, pc, handling, rendering, removals, now>>

\* showSuccessToast(message, duration)
ShowSuccessToast ==
  \E m \in Messages, d \in Durations : ShowToast("success", m, d)

\* showErrorToast(message, duration)
ShowErrorToast ==
  \E m \in Messages, d \in Durations : ShowToast("error", m, d)

\* the timer callback of showToast, with the toast it found
Dismissed(t, k) ==
  /\ toasts' = FadeOut(toasts, k, t.owner, now)
  /\ timers' = (timers \ {t})
                 \cup (IF k = 0 THEN {}
                       ELSE {Timer("remove", t.owner, k,
                                   now + ANIMATION_DURATION)})
  /\ removals' = removals \cup (IF k = 0 THEN {} ELSE {Removal(t.owner, k)})

\* the timer callback of showToast
Dismiss ==
  /\ \E t \in DueFirst(timers) :
       /\ t.kind = "dismiss"
       /\ t.due <= now
       /\ Dismissed(t, CurrentToast(toasts, t.owner))
  /\ UNCHANGED <<receiving, background>>
  /\ UNCHANGED <<conversion, pc, handling, rendering, now>>

\* the timer callback of removeToastWithAnimation
RemoveAfterAnimation ==
  /\ \E t \in DueFirst(timers) :
       /\ t.kind = "remove"
       /\ t.due <= now
       /\ toasts' = Remove(toasts, t.target, "timer", now)
       /\ timers' = timers \ {t}
       /\ removals' = Resolve(removals, t, toasts)
  /\ UNCHANGED <<receiving, background>>
  /\ UNCHANGED <<conversion, pc, handling, rendering, now>>

\* Time passes, up to the next timer at most
Wait ==
  /\ timers # {}
  /\ \A t \in timers : now < t.due
  /\ \E t \in DueFirst(timers) :
       now' \in {t.due} \cup {now + w : w \in {v \in Waits : now + v <= t.due}}
  /\ UNCHANGED <<receiving, background>>
  /\ UNCHANGED <<conversion, pc, handling, rendering, toasts, timers,
                  removals>>

ToastNext ==
  \/ ShowSuccessToast
  \/ ShowErrorToast
  \/ Dismiss
  \/ RemoveAfterAnimation
  \/ Wait

ToastSpec == ToastInit /\ [][ToastNext]_vars

\* The same with the event loop at work: a timer that is due fires, and
\* time passes while timers are pending
ToastFairSpec ==
  /\ ToastInit
  /\ [][ToastNext]_vars
  /\ WF_vars(Dismiss)
  /\ WF_vars(RemoveAfterAnimation)
  /\ WF_vars(Wait)

(***************************************************************************)
(* The state machine: the content script receives messages, and the        *)
(* handlings they start share the document, the clipboard and the toasts   *)
(***************************************************************************)

MaxRequests == 2

MessageTypes == {CONVERT_TO_MARKDOWN, "OTHER"}
RequestEnvs(doc) ==
  {e \in Envs(doc) : /\ e.navigator \in {"undefined", "clipboard"}
                     /\ e.secure
                     /\ e.writeText \in {"resolves", "rejects"}
                     /\ e.fallback.failAt \in {"none", "appendChild"}}

RequestsInit ==
  /\ backend \in Backends
  /\ location \in {Absent, Host(<<"e", "x", "a", "m", "p", "l", "e", ".", "c", "o", "m">>)}
  /\ document \in HandledDocuments(backend)
  /\ pc = "listening"
  /\ path = "none"
  /\ result = NoResult
  /\ calls = <<>>
  /\ page \in {Page(<<"T">>, h) : h \in Hrefs(location)}
  /\ env \in RequestEnvs(document)
  /\ steps = <<>>
  /\ promise = NoPromise
  /\ clipboard = NoText
  /\ textareas = 0
  /\ requests = <<>>
  /\ NotRendering
  /\ NotToasting
  /\ NotClicking

\* The listener of setupMessageListener is called with a message: it
\* starts handleConvertToMarkdown, which runs up to its await.  A message
\* is taken from the queue only when no continuation is waiting.
Receive(type) ==
  /\ Len(requests) < MaxRequests
  /\ ~Continuing(requests)
  /\ IF type # CONVERT_TO_MARKDOWN
     THEN /\ requests' = Append(requests, Ignored(type))
          /\ UNCHANGED <<clipboard, textareas, toasts, timers>>
     ELSE \E conv \in {ConvertPageToMarkdownOf(backend, location, document)} :
            \E out \in {HandleResult(conv.result, page, env, clipboard,
                                     HasBody(document))} :
              /\ requests' =
                   Append(requests,
                          Request(type, out.pc, conv.result, out.steps,
                                  out.promise))
              /\ clipboard' = out.clipboard
              /\ textareas' = textareas + out.textareas
              /\ toasts' = ToastsAfter(toasts, out.steps, now)
              /\ timers' = TimersAfter(timers, Len(toasts) + 1, toasts', now)
  /\ UNCHANGED <<conversion, pc, page, env, steps, promise>>
  /\ UNCHANGED <<rendering, removals, now, background>>

ReceiveMessage == \E type \in MessageTypes : Receive(type)

\* writeText settles for one of the handlings that wait for it
WriteTextSettlesFor(i) ==
  /\ requests[i].pc = "writing"
  /\ ~Continuing(requests)
  /\ \E out \in {WriteTextSettled(env, Handed(requests[i].steps),
                                  requests[i].steps, clipboard)} :
       /\ requests' = [requests EXCEPT ![i] = Handling(requests[i], out)]
       /\ clipboard' = out.clipboard
       /\ textareas' = textareas + out.textareas
  /\ UNCHANGED <<conversion, pc, page, env, steps, promise>>
  /\ UNCHANGED <<rendering, toasting, background>>

WriteTextSettlesForOne ==
  \E i \in 1..Len(requests) : WriteTextSettlesFor(i)

\* a handling runs on after its await
ResumeFor(i) ==
  /\ requests[i].pc = "awaiting"
  /\ \E more \in {Notification(requests[i].promise, HasBody(document))} :
       /\ requests' =
            [requests EXCEPT ![i].steps = @ \o more, ![i].pc = "done"]
       /\ toasts' = ToastsAfter(toasts, more, now)
  /\ timers' = TimersAfter(timers, Len(toasts) + 1, toasts', now)
  /\ UNCHANGED <<conversion, pc, handling>>
  /\ UNCHANGED <<rendering, removals, now, background>>

ResumeOne == \E i \in 1..Len(requests) : ResumeFor(i)

RequestsNext == ReceiveMessage \/ WriteTextSettlesForOne \/ ResumeOne

RequestsSpec == RequestsInit /\ [][RequestsNext]_vars

(***************************************************************************)
(* The state machine: clicks on the icon of the extension                  *)
(***************************************************************************)

MaxClicks == 2

\* The tabs of the browser: a window has at most one active tab, and the
\* ids of tabs are positive and differ
BrowserTabs ==
  {<<>>}
    \cup {<<Tab(i, a, w)>> : i \in {NoTabId, TabId(7)}, a \in BOOLEAN,
                             w \in BOOLEAN}
    \cup {ts \in {<<Tab(i, a, w), Tab(TabId(8), b, x)>> :
                     i \in {NoTabId, TabId(7)}, a \in BOOLEAN, w \in BOOLEAN,
                     b \in BOOLEAN, x \in BOOLEAN} :
            ~(/\ ts[1].active /\ ts[2].active
              /\ ts[1].currentWindow = ts[2].currentWindow)}

BackgroundInit ==
  /\ NotConverting
  /\ NotHandling
  /\ NotRendering
  /\ NotToasting
  /\ NotReceiving
  /\ pc = "listening"
  /\ tabs \in BrowserTabs
  /\ clicks = <<>>
  /\ delivered = <<>>
  /\ console = <<>>
  /\ unhandled = 0

\* handleExtensionClick(): sendMessageToActiveTab runs up to its first
\* await, or chrome.tabs.query throws at once
HandleExtensionClick ==
  /\ Len(clicks) < MaxClicks
  /\ \E query \in {"answers later", "throws"} :
       \E out \in {IF query = "throws"
                   THEN SendMessageCaught(console, unhandled, "query threw")
                   ELSE Ran(Click("querying", NoTabId), console, unhandled)} :
         /\ clicks' = Append(clicks, out.click)
         /\ console' = out.console
         /\ unhandled' = out.unhandled
  /\ UNCHANGED <<conversion, pc, handling, rendering, toasting, receiving>>
  /\ UNCHANGED <<tabs, delivered>>

\* the promise of chrome.tabs.query settles
QuerySettlesFor(i) ==
  /\ clicks[i].pc = "querying"
  /\ \E query \in {"resolves", "rejects"} :
       \E out \in {IF query = "rejects"
                   THEN SendMessageCaught(console, unhandled, "query rejected")
                   ELSE Queried(TabsQuery(tabs), console, unhandled)} :
         /\ clicks' = Moved(clicks, i, out.click)
         /\ console' = out.console
         /\ unhandled' = out.unhandled
  /\ UNCHANGED <<conversion, pc, handling, rendering, toasting, receiving>>
  /\ UNCHANGED <<tabs, delivered>>

QuerySettles == \E i \in 1..Len(clicks) : QuerySettlesFor(i)

\* the promise of chrome.tabs.sendMessage settles: the message has reached
\* the tab, or there was nothing in the tab to receive it
SendSettlesFor(i) ==
  /\ clicks[i].pc = "sending"
  /\ \E send \in {"resolves", "rejects"} :
       \E out \in {IF send = "rejects"
                   THEN SendMessageCaught(console, unhandled, "send rejected")
                   ELSE Ran(Click("done", clicks[i].to), console, unhandled)} :
         /\ clicks' = Moved(clicks, i, out.click)
         /\ console' = out.console
         /\ unhandled' = out.unhandled
         /\ delivered' =
              IF send = "resolves"
              THEN Append(delivered,
                          Sent(clicks[i].to, CONVERT_TO_MARKDOWN, i))
              ELSE delivered
  /\ UNCHANGED <<conversion, pc, handling, rendering, toasting, receiving>>
  /\ UNCHANGED tabs

SendSettles == \E i \in 1..Len(clicks) : SendSettlesFor(i)

BackgroundNext == HandleExtensionClick \/ QuerySettles \/ SendSettles

BackgroundSpec == BackgroundInit /\ [][BackgroundNext]_vars

(***************************************************************************)
(* What the claims speak of, read from the inputs of the conversion        *)
(***************************************************************************)

\* text contains needle as a substring
Contains(text, needle) ==
  \E i \in 1..Len(text) :
    /\ i + Len(needle) - 1 <= Len(text)
    /\ \A k \in 1..Len(needle) : text[i + k - 1] = needle[k]

\* the current hostname contains "claude.ai"
OnClaudeHost ==
  /\ location.kind = "host"
  /\ Contains(location.hostname, <<"c", "l", "a", "u", "d", "e", ".", "a", "i">>)

\* there is a hostname and it does not contain "claude.ai", or there is no
\* location at all
OnGenericHost ==
  \/ location.kind = "absent"
  \/ /\ location.kind = "host"
     /\ ~Contains(location.hostname, <<"c", "l", "a", "u", "d", "e", ".", "a", "i">>)

\* empty or white space only
Blank(text) == \A k \in 1..Len(text) : text[k] \in WhiteSpace

\* neither starts nor ends with white space
Stripped(text) ==
  text = <<>> \/ (text[1] \notin WhiteSpace /\ text[Len(text)] \notin WhiteSpace)

\* text without its leading and trailing white space
RECURSIVE Strip(_)
Strip(text) ==
  IF text = <<>> THEN <<>>
  ELSE IF text[1] \in WhiteSpace THEN Strip(Tail(text))
  ELSE IF text[Len(text)] \in WhiteSpace
  THEN Strip(SubSeq(text, 1, Len(text) - 1))
  ELSE text

\* The field of an extracted payload the build renders is there: a content
\* string that is not blank, or a root node tree
HasContent(be, payload) ==
  IF be = "mozilla"
  THEN payload.content.def = "value" /\ ~Blank(payload.content.str)
  ELSE payload.root.def = "value"

\* The extraction of a markup gave a payload with content, which is rendered
Renders(be, part) ==
  /\ part.kind = "ok"
  /\ part.ext.kind = "payload"
  /\ HasContent(be, part.ext.payload)

\* The renderer throws on the content of this part
RenderThrows(be, part) ==
  Renders(be, part) /\ be = "mizchi" /\ part.ext.payload.root.toMarkdown.threw

\* The text the renderer returns for the content of this part
RenderOf(be, part) ==
  IF be = "mozilla" THEN ConvertHtmlToMarkdown(part.ext.payload.content.str)
  ELSE part.ext.payload.root.toMarkdown.val

\* The part is extracted and rendered, and its render is not blank
Survives(be, part) ==
  Renders(be, part) /\ ~RenderThrows(be, part) /\ ~Blank(RenderOf(be, part))

\* The part is extracted and rendered, and its render is blank
RendersBlank(be, part) ==
  Renders(be, part) /\ ~RenderThrows(be, part) /\ Blank(RenderOf(be, part))

\* The marker elements of the document, when the query answers
MarkerElements == document.qsa.els
HasMarkerElements == document.qsa.kind = "list" /\ Len(MarkerElements) >= 1

\* The fragments of the surviving elements e..n, in document order
RECURSIVE FragmentsUpTo(_)
FragmentsUpTo(n) ==
  IF n = 0 THEN <<>>
  ELSE FragmentsUpTo(n - 1)
         \o (IF Survives(backend, MarkerElements[n])
             THEN <<Strip(RenderOf(backend, MarkerElements[n]))>>
             ELSE <<>>)

\* fragments with "\n\n---\n\n" between every two neighbours
RECURSIVE Separated(_)
Separated(frags) ==
  IF frags = <<>> THEN <<>>
  ELSE IF Len(frags) = 1 THEN frags[1]
  ELSE Separated(SubSeq(frags, 1, Len(frags) - 1))
         \o <<"\n", "\n", "-", "-", "-", "\n", "\n">> \o frags[Len(frags)]

Finished == pc = "done"
Returned == result.kind \in {"success", "failure"}
FailedWith(reason) == result.kind = "failure" /\ result.error = reason
NoRender == \A k \in 1..Len(calls) : calls[k].op # "render"

\* The reason a caught exception gives: the message of an Error instance,
\* the default message for any other thrown value
ReasonOfInstance(e) ==
  IF e.isError THEN e.message ELSE "DEFAULT_ERROR_MESSAGE"

\* The reason by the presence of a message
ReasonOfMessage(e) ==
  IF e.hasMessage THEN e.message ELSE "DEFAULT_ERROR_MESSAGE"

\* an exception raised in the generic path outside the extraction
GenericThrown ==
  IF document.body.kind = "throws" THEN {document.body.exc}
  ELSE IF RenderThrows(backend, document.body)
  THEN {document.body.ext.payload.root.toMarkdown.exc}
  ELSE {}

(***************************************************************************)
(* The claims                                                              *)
(***************************************************************************)

\* C1: no exception escapes convertPageToMarkdown; whatever the document
\* and the ambient context, a finished call has returned a ConvertResult, a
\* success or a failure.
C1_NoExceptionEscapes == Finished => Returned

\* C2: the router takes the claude.ai path exactly when the hostname
\* contains "claude.ai" and the generic path in every other context, an
\* absent hostname or location included; routing never ends in an error.
C2_RouterIsTotal ==
  Finished => path = (IF OnClaudeHost THEN "claude" ELSE "generic")

\* C3: a success carries markdown that is neither empty nor white space
\* only, on both paths; when the render of the extracted content is blank,
\* on the generic path or for every marker element, the result is the
\* failure with the empty-markdown reason.
C3_SuccessIsNeverBlank ==
  Finished =>
    /\ result.kind = "success" => ~Blank(result.markdown)
    /\ (OnGenericHost /\ RendersBlank(backend, document.body))
         => FailedWith("EMPTY_MARKDOWN_ERROR")
    /\ (/\ OnClaudeHost
        /\ HasMarkerElements
        /\ \A k \in 1..Len(MarkerElements) :
             RendersBlank(backend, MarkerElements[k]))
         => FailedWith("EMPTY_MARKDOWN_ERROR")

\* C3 happens: the library renderer returned white space only on the
\* generic path and the call failed with the empty-markdown reason.
C3_Witness ==
  /\ Finished
  /\ OnGenericHost
  /\ RendersBlank(backend, document.body)
  /\ RenderOf(backend, document.body) # <<>>
  /\ FailedWith("EMPTY_MARKDOWN_ERROR")

\* C4: on the claude.ai path with at least one marker element, the result
\* is a success exactly when an element survives, its markdown is then the
\* trimmed renders of the surviving elements in document order joined by
\* "\n\n---\n\n", and the elements are extracted and rendered one at a
\* time in document order, the failing and blank ones adding nothing.
C4_SectionsJoinedInOrder ==
  (Finished /\ OnClaudeHost /\ HasMarkerElements) =>
    /\ result.kind = "success" <=> FragmentsUpTo(Len(MarkerElements)) # <<>>
    /\ result.kind = "success" =>
         result.markdown = Separated(FragmentsUpTo(Len(MarkerElements)))
    /\ \A i, j \in 1..Len(calls) : i < j => calls[i].el <= calls[j].el
    /\ \A k \in 1..Len(MarkerElements) :
         /\ Cardinality({i \in 1..Len(calls) : calls[i] = Call("extract", k)})
              = (IF MarkerElements[k].kind = "ok" THEN 1 ELSE 0)
         /\ Cardinality({i \in 1..Len(calls) : calls[i] = Call("render", k)})
              = (IF Renders(backend, MarkerElements[k]) THEN 1 ELSE 0)
    /\ \A i \in 1..Len(calls) :
         calls[i].op = "render" =>
           i > 1 /\ calls[i - 1] = Call("extract", calls[i].el)

\* C4 happens: two of the marker elements survive, one of them with white
\* space to trim, and the call succeeded.
C4_Witness ==
  /\ Finished
  /\ OnClaudeHost
  /\ HasMarkerElements
  /\ Len(FragmentsUpTo(Len(MarkerElements))) = 2
  /\ \E k \in 1..Len(MarkerElements) :
       /\ Survives(backend, MarkerElements[k])
       /\ ~Stripped(RenderOf(backend, MarkerElements[k]))
  /\ result.kind = "success"

\* C5: on the claude.ai path, a document without marker elements gives the
\* failure with the no-matching-elements reason, and neither an extraction
\* nor a render is attempted.
C5_NoElementsFails ==
  (/\ Finished
   /\ OnClaudeHost
   /\ document.qsa.kind = "list"
   /\ Len(MarkerElements) = 0)
    => FailedWith("CLAUDE_AI_NO_ELEMENTS_ERROR") /\ calls = <<>>

\* C5 happens: a finished call on a claude.ai host whose query found no
\* marker element.
C5_Witness ==
  /\ Finished
  /\ OnClaudeHost
  /\ document.qsa.kind = "list"
  /\ Len(MarkerElements) = 0
  /\ result.kind = "failure"

\* C6: on the claude.ai path with at least one marker element, the result
\* is the failure with the empty-markdown reason exactly when every
\* element fails its extraction or render or renders blank.
C6_EmptyOnlyWhenAllFail ==
  (Finished /\ OnClaudeHost /\ HasMarkerElements) =>
    (FailedWith("EMPTY_MARKDOWN_ERROR")
       <=> \A k \in 1..Len(MarkerElements) :
             ~Survives(backend, MarkerElements[k]))

\* C6 happens: two marker elements, one that fails and one that renders
\* to white space only, and the call failed with the empty-markdown reason.
C6_Witness ==
  /\ Finished
  /\ OnClaudeHost
  /\ HasMarkerElements
  /\ Len(MarkerElements) = 2
  /\ \E k \in 1..2 : ~Renders(backend, MarkerElements[k])
  /\ \E k \in 1..2 :
       /\ RendersBlank(backend, MarkerElements[k])
       /\ RenderOf(backend, MarkerElements[k]) # <<>>
  /\ FailedWith("EMPTY_MARKDOWN_ERROR")

\* C7: on the generic path, an extraction that returns null or throws
\* gives the failure with the extraction-failed reason, and the renderer
\* is not invoked.
C7_ExtractionFailure ==
  (/\ Finished
   /\ OnGenericHost
   /\ document.body.kind = "ok"
   /\ document.body.ext.kind \in {"null", "throws"})
    => FailedWith("EXTRACTION_ERROR") /\ NoRender

\* C7 happens: the extraction library threw on the generic path.
C7_Witness ==
  /\ Finished
  /\ OnGenericHost
  /\ document.body.kind = "ok"
  /\ document.body.ext.kind = "throws"
  /\ result.kind = "failure"

\* C8: on the generic path, a payload whose content is missing, empty or
\* white space only (for the library renderer: whose root is missing) gives
\* the failure with the content-missing reason, which is neither the
\* extraction-failed nor the empty-markdown reason, and nothing is
\* rendered.
C8_ContentMissing ==
  (/\ Finished
   /\ OnGenericHost
   /\ document.body.kind = "ok"
   /\ document.body.ext.kind = "payload"
   /\ ~HasContent(backend, document.body.ext.payload))
    => /\ FailedWith(IF backend = "mozilla" THEN "CONTENT_PROPERTY_ERROR"
                     ELSE "ROOT_PROPERTY_ERROR")
       /\ result.error \notin {"EXTRACTION_ERROR", "EMPTY_MARKDOWN_ERROR"}
       /\ NoRender

\* C8 happens: the payload's content is white space only, not empty.
C8_Witness ==
  /\ Finished
  /\ OnGenericHost
  /\ document.body.kind = "ok"
  /\ document.body.ext.kind = "payload"
  /\ document.body.ext.payload.content.def = "value"
  /\ document.body.ext.payload.content.str # <<>>
  /\ Blank(document.body.ext.payload.content.str)
  /\ result.kind = "failure"

\* C9 as stated: an exception raised in the generic path (outside the
\* extraction) or by the query of the claude.ai path gives the failure
\* whose reason is the exception's message when it has one, and the default
\* message when it has none.
C9_ReasonIsMessageIfAny ==
  Finished =>
    /\ OnGenericHost =>
         \A e \in GenericThrown : FailedWith(ReasonOfMessage(e))
    /\ (OnClaudeHost /\ document.qsa.kind = "throws")
         => FailedWith(ReasonOfMessage(document.qsa.exc))

\* C9 amended: such an exception gives the failure whose reason is the
\* message of the thrown value when it is an Error instance, also when that
\* message is empty, and the default message for every other thrown value;
\* a missing document.body raises the runtime's TypeError.
C9_ReasonIsMessageOfError ==
  Finished =>
    /\ OnGenericHost =>
         \A e \in GenericThrown : FailedWith(ReasonOfInstance(e))
    /\ (OnGenericHost /\ document.body.kind = "null")
         => FailedWith(TypeError.message)
    /\ (OnClaudeHost /\ document.qsa.kind = "throws")
         => FailedWith(ReasonOfInstance(document.qsa.exc))

\* C9 happens: a thrown value that is no Error instance and has a message
\* was caught, and the call failed.
C9_Witness ==
  /\ Finished
  /\ result.kind = "failure"
  /\ \/ /\ OnGenericHost
        /\ \E e \in GenericThrown : ~e.isError /\ e.hasMessage
     \/ /\ OnClaudeHost
        /\ document.qsa.kind = "throws"
        /\ ~document.qsa.exc.isError
        /\ document.qsa.exc.hasMessage

HasConverted == pc # "ready" /\ result.kind = "success"

\* the header written out for a title and a URL
HeaderText(title, url) ==
  <<"#", " ">> \o title \o <<"\n", "\n", "U", "R", "L", ":", " ">> \o url

\* the text made of a title, a URL and the markdown of the conversion
ClipboardText(title, url) ==
  HeaderText(title, url) \o <<"\n", "\n", "-", "-", "-", "\n", "\n">>
    \o result.markdown

\* C11 as stated: For every page title, page URL and successful
\* conversion the text handed to copyToClipboard is "# " + title +
\* "\n\nURL: " + url + "\n\n---\n\n" + markdown, with the title and the
\* URL of the page inserted unchanged.
C11_HeaderHasTitleAndUrl ==
  HasConverted => Handed(steps) = ClipboardText(page.title, page.href.str)

\* C11 amended: the same, except that an empty title is replaced by the
\* fixed placeholder title (and a missing href by the empty text).
C11_HeaderHasTitleOrPlaceholder ==
  HasConverted =>
    Handed(steps) =
      ClipboardText(IF page.title = <<>> THEN Untitled ELSE page.title,
                    page.href.str)

C11_Witness ==
  /\ pc = "done"
  /\ result.kind = "success"
  /\ page.title # <<>>
  /\ page.href.str # <<>>
  /\ Handed(steps) # NoText

\* the places of the steps of a handling that are among the given ones
StepsOf(ops) == {k \in 1..Len(steps) : steps[k].op \in ops}
ClipboardSteps == StepsOf({"writeText", "copyToClipboardFallback"})
ToastSteps ==
  StepsOf({"showErrorToast", "showSuccessToast", "showErrorToast throws",
           "showSuccessToast throws"})

\* C12: While one CONVERT_TO_MARKDOWN request is handled, copyToClipboard
\* is called only after convertPageToMarkdown has returned a success, at
\* most once, and nothing but the clipboard write itself lies between it
\* and the notification of the outcome, which closes the handling; when
\* the conversion fails no clipboard write of any kind is attempted.
C12_ClipboardOnlyAfterSuccess ==
  /\ Cardinality(StepsOf({"copyToClipboard"})) <= 1
  /\ \A k \in StepsOf({"copyToClipboard"}) \cup ClipboardSteps :
       /\ result.kind = "success"
       /\ \E j \in StepsOf({"convertPageToMarkdown"}) : j < k
  /\ \A k \in StepsOf({"copyToClipboard"}) :
       \A j \in (k + 1)..Len(steps) : j \in ClipboardSteps \cup ToastSteps
  /\ \A j \in ToastSteps :
       pc = "done" /\ \A i \in (j + 1)..Len(steps) : i \in ToastSteps
  /\ pc = "done" => ToastSteps # {}
  /\ pc # "ready" /\ result.kind # "success" =>
       /\ StepsOf({"copyToClipboard"}) \cup ClipboardSteps = {}
       /\ clipboard = NoText
       /\ pc = "done"

C12_Witness ==
  /\ pc = "done"
  /\ result.kind = "success"
  /\ StepsOf({"copyToClipboard"}) = {2}
  /\ steps[Len(steps)].op = "showSuccessToast"
  /\ clipboard = Handed(steps)

\* the Clipboard API is there, the context is secure and writeText resolves
ApiWrites ==
  env.navigator = "clipboard" /\ env.secure /\ env.writeText = "resolves"

\* what copyToClipboardFallback answers in the environment: the answer of
\* execCommand when no step of it throws
FallbackAnswer == env.fallback.failAt = "none" /\ env.fallback.execResult

\* copyToClipboard has returned and its promise is settled
Settled == pc \in {"awaiting", "done"} /\ promise.state # "none"

\* C17: copyToClipboard returns true without running the fallback when
\* the Clipboard API exists, the context is secure and writeText resolves;
\* it runs the fallback (once) exactly when the API is missing, the
\* context is not secure or writeText fails, and then resolves to what the
\* fallback answered.
C17_FallbackExactlyWhenApiFails ==
  Settled =>
    IF ApiWrites
    THEN promise = Resolved(TRUE)
           /\ StepsOf({"copyToClipboardFallback"}) = {}
    ELSE promise = Resolved(FallbackAnswer)
           /\ Cardinality(StepsOf({"copyToClipboardFallback"})) = 1

C17_Witness ==
  /\ pc = "done"
  /\ env.navigator = "clipboard" /\ env.secure /\ env.writeText = "rejects"
  /\ StepsOf({"copyToClipboardFallback"}) # {}
  /\ promise = Resolved(TRUE)

\* C18: The promise of copyToClipboard always resolves to a boolean and
\* never rejects, whatever the environment does; it resolves to false when
\* the API write fails and the fallback fails or throws.
C18_AlwaysResolvesToBoolean ==
  Settled =>
    /\ promise.state = "resolved"
    /\ promise.value \in BOOLEAN
    /\ (~ApiWrites /\ ~FallbackAnswer => promise.value = FALSE)

C18_Witness ==
  /\ pc = "done"
  /\ env.navigator = "clipboard" /\ env.secure /\ env.writeText = "rejects"
  /\ env.fallback.failAt = "execCommand"
  /\ promise = Resolved(FALSE)
  /\ steps[Len(steps)].message = <<ERROR_CLIPBOARD_COPY>>

(***************************************************************************)
(* What the claims on the renderer speak of                                *)
(***************************************************************************)

\* the line of the k-th item of a list: "N. text" in an ol, "- text" in a ul
ItemLine(l, k) ==
  (IF l.ordered THEN DecStr(k) \o <<".", " ">> ELSE <<"-", " ">>)
    \o l.items[k]

\* the lines of a list, one under the other
ListLines(l) == Join([k \in 1..Len(l.items) |-> ItemLine(l, k)], <<"\n">>)

\* the lists that have an item, in their order
RECURSIVE WithItems(_)
WithItems(ls) ==
  IF ls = <<>> THEN <<>>
  ELSE IF Head(ls).items = <<>> THEN WithItems(Tail(ls))
  ELSE <<Head(ls)>> \o WithItems(Tail(ls))

\* the lines of a run of lists, a blank line between two lists
ListsLines(ls) ==
  Join([k \in 1..Len(WithItems(ls)) |-> ListLines(WithItems(ls)[k])],
       <<"\n", "\n">>)

\* C13: Every li of an ol is rendered as the line "N. <item text>", N
\* counting from 1 in the order of the items and the item text being the
\* content of the item; every li of a ul is rendered as "- <item text>".
C13_ListItemsKeepTheirText ==
  pc = "done" /\ fragment.kind = "lists" =>
    rendered = ListsLines(fragment.lists)

\* the markdown of an element of a mapped tag with the given content
Hashes(n) == [k \in 1..n |-> "#"]
MarkdownOf(name, inner) ==
  IF name[1] = "h" THEN Hashes(CHOOSE n \in 1..6 : DecStr(n) = <<name[2]>>)
                          \o <<" ">> \o inner
  ELSE IF name = <<"p">> THEN inner
  ELSE IF name \in {<<"s", "t", "r", "o", "n", "g">>, <<"b">>}
  THEN <<"*", "*">> \o inner \o <<"*", "*">>
  ELSE IF name \in {<<"e", "m">>, <<"i">>} THEN <<"*">> \o inner \o <<"*">>
  ELSE IF name = <<"c", "o", "d", "e">>
  THEN <<Backtick>> \o inner \o <<Backtick>>
  ELSE <<Backtick, Backtick, Backtick, "\n">> \o inner
         \o <<"\n", Backtick, Backtick, Backtick>>

\* the literal text of the content of an element: its entities decoded
LiteralOf(inner) ==
  IF inner = EntityText(<<"b">>, <<"x">>) THEN ElementText(<<"b">>, <<"x">>)
  ELSE inner

HasTag(t) ==
  \E i, j \in 1..Len(t) :
    /\ t[i] = "<" /\ t[j] = ">" /\ i + 1 < j
    /\ \A m \in (i + 1)..(j - 1) : t[m] # ">"

Entities ==
  {<<"&", "a", "m", "p", ";">>, <<"&", "l", "t", ";">>, <<"&", "g", "t", ";">>,
   <<"&", "q", "u", "o", "t", ";">>, <<"&", "#", "3", "9", ";">>}
HasEntity(t) == \E e \in Entities : Includes(t, e)

\* three newlines with nothing but white space between them
HasBlankLines(t) ==
  \E i, j, k \in 1..Len(t) :
    /\ i < j /\ j < k
    /\ t[i] = "\n" /\ t[j] = "\n" /\ t[k] = "\n"
    /\ \A m \in i..k : t[m] \in WhiteSpace

\* C15 as stated: For every payload that contains no tags the result of
\* the renderer is the same text trimmed, and nothing else is changed.
C15_PlainTextIsOnlyTrimmed ==
  pc = "done" /\ fragment.kind = "text" /\ ~HasTag(fragment.html) =>
    rendered = Trim(fragment.html)

\* C15 amended: For every payload that contains no tags, none of the five
\* entities and no three newlines separated only by white space, the
\* result of the renderer is the same text trimmed.
C15_PlainTextWithoutEntitiesIsOnlyTrimmed ==
  pc = "done" /\ fragment.kind = "text" /\ ~HasTag(fragment.html)
    /\ ~HasEntity(fragment.html) /\ ~HasBlankLines(fragment.html) =>
    rendered = Trim(fragment.html)

C15_Witness ==
  /\ pc = "done"
  /\ fragment.kind = "text"
  /\ fragment.html = <<" ", "x", " ", "\n", "x", "\n">>
  /\ rendered = <<"x", " ", "\n", "x">>

\* the longest run of newlines of a text
NewlineRun(t, i) == {k \in 0..2 : i + k <= Len(t) /\ t[i + k] = "\n"} = 0..2
HasThreeNewlines(t) == \E i \in 1..Len(t) : NewlineRun(t, i)

\* the number of newlines of a text
Newlines(t) == Cardinality({i \in 1..Len(t) : t[i] = "\n"})

\* C16: The output of the renderer never contains three or more
\* consecutive newlines: a run of three or more newlines of the text, also
\* one whose newlines are separated only by white space, is collapsed to
\* exactly two newlines.
C16_NoThreeNewlines ==
  pc = "done" =>
    /\ ~HasThreeNewlines(rendered)
    /\ ~HasBlankLines(rendered)
    /\ fragment.kind = "text" /\ ~HasTag(fragment.html)
         /\ HasBlankLines(Trim(fragment.html))
         /\ Cardinality({i \in 1..Len(Trim(fragment.html)) :
                           Trim(fragment.html)[i] \notin WhiteSpace}) = 2 =>
         Newlines(rendered) = 2

C16_Witness ==
  /\ pc = "done"
  /\ fragment.html = <<"x", "\n", " ", "\n", "\n", "x">>
  /\ rendered = <<"x", "\n", "\n", "x">>

(***************************************************************************)
(* What the claims on the toasts speak of                                  *)
(***************************************************************************)

\* the toasts of a run that are in the document
InDocument(ts) == {k \in 1..Len(ts) : ts[k].attached}

C20_EarlierTimerSparesLaterToast ==
  \A k \in 1..Len(toasts) :
    toasts[k].fadedBy \notin {0, k} =>
      toasts[k].fadedAt >=
        toasts[k].shownAt + toasts[k].duration - FADE_OUT_DELAY

\* C21: Toasts disappear by themselves: when the timers fire and no
\* further toast is shown, the document in the end holds no toast, and
\* every promise of removeToastWithAnimation is resolved, also the one
\* whose toast a replacement had removed before.
C21_ToastsDisappear ==
  <>[](InDocument(toasts) = {} /\ removals = {})

\* a removal is pending for a toast that a replacement has taken away
C21_Witness ==
  \E r \in removals :
    /\ ~toasts[r.target].attached
    /\ toasts[r.target].removedBy = "replacement"

\* C23: The clipboard fallback leaves the page as it found it: on every
\* exit of copyToClipboardFallback, whether execCommand answers true or
\* false or a step (focus, select, execCommand) throws, the textarea it
\* appended to document.body has been removed again.
C23_FallbackRemovesTextarea ==
  Settled => textareas = 0

(***************************************************************************)
(* Claims about the messages: requests and clicks                          *)
(***************************************************************************)

\* the requests the listener has handed to handleConvertToMarkdown
Handled == {i \in 1..Len(requests) : requests[i].type = CONVERT_TO_MARKDOWN}

\* the calls of a request that have put a toast into the document
ToastCalls(r) ==
  {k \in 1..Len(r.steps) :
     r.steps[k].op \in {"showErrorToast", "showSuccessToast"}}

\* the toast the claim names for the outcome of a request
NamedToast(r) ==
  IF r.result.kind = "threw" THEN HandlerCatch(r.result.exc)
  ELSE IF r.result.kind = "failure"
  THEN Did("showErrorToast", <<>>, <<ERROR_CONVERT_PREFIX, r.result.error>>)
  ELSE IF r.promise.state = "rejected" THEN HandlerCatch(r.promise.exc)
  ELSE IF ~r.promise.value
  THEN Did("showErrorToast", <<>>, <<ERROR_CLIPBOARD_COPY>>)
  ELSE Did("showSuccessToast", <<>>, <<SUCCESS_COPY_MESSAGE>>)

\* every finished request has made one toast, the one named for its outcome
OneToastEach ==
  /\ \A i \in Handled :
       /\ requests[i].pc # "done" => ToastCalls(requests[i]) = {}
       /\ requests[i].pc = "done" =>
            \E k \in 1..Len(requests[i].steps) :
              /\ ToastCalls(requests[i]) = {k}
              /\ requests[i].steps[k] = NamedToast(requests[i])
  /\ Len(toasts) = Cardinality({i \in Handled : requests[i].pc = "done"})

\* C22: Each handled CONVERT_TO_MARKDOWN message produces exactly one
\* toast, also when requests overlap: the error toast with the reason of
\* the conversion when the conversion fails, the clipboard error toast
\* when copyToClipboard answers false, the error toast with the message
\* of the exception when something throws, and the success toast only
\* when the conversion succeeded and copyToClipboard answered true.
C22_OneToastPerRequest == OneToastEach

\* the messages a click has sent
SentBy(i) == {j \in 1..Len(delivered) : delivered[j].click = i}

\* the clicks whose sendMessageToActiveTab has returned
ClicksDone == {i \in 1..Len(clicks) : clicks[i].pc = "done"}

\* the tabs that are the active tab of the current window
ActiveTabs ==
  {k \in 1..Len(tabs) : tabs[k].active /\ tabs[k].currentWindow}

\* C24: Each click on the icon sends at most one CONVERT_TO_MARKDOWN
\* message, and only to the active tab of the current window; when there
\* is no active tab with an id, or the query or the send fails, nothing is
\* delivered and the failure is logged, and no rejection stays unhandled.
C24_OneMessageToActiveTab ==
  /\ \A i \in 1..Len(clicks) : Cardinality(SentBy(i)) <= 1
  /\ \A j \in 1..Len(delivered) :
       /\ delivered[j].type = CONVERT_TO_MARKDOWN
       /\ delivered[j].click \in ClicksDone
       /\ HasTabId(delivered[j].to)
       /\ \E k \in ActiveTabs : tabs[k].id = delivered[j].to
  /\ (\A k \in ActiveTabs : ~HasTabId(tabs[k].id)) =>
       /\ delivered = <<>>
       /\ \A n \in 1..Len(console) : console[n].message = ERROR_NO_ACTIVE_TAB
                                       \/ console[n].error # "send rejected"
  /\ Len(console) = Cardinality({i \in ClicksDone : SentBy(i) = {}})
  /\ \A n \in 1..Len(console) :
       console[n].message \in {ERROR_NO_ACTIVE_TAB, ERROR_MESSAGE_SEND}
  /\ unhandled = 0

\* one click has delivered its message, and the send of another has failed
\* and is in the log
C24_Witness ==
  /\ ClicksDone = 1..MaxClicks
  /\ Len(delivered) = 1
  /\ \E n \in 1..Len(console) :
       console[n] = Logged(ERROR_MESSAGE_SEND, "send rejected")


====
